---- MODULE Spec2Model ----
(***************************************************************************)
(* GophKeeper server: the versioned item store (ItemRepo over PostgreSQL), *)
(* its delta-sync reads and the wrapped-DEK bootstrap of the user store.   *)
(*                                                                         *)
(* The committed table contents are `store`; every repository call that    *)
(* mutates runs in its own transaction, whose statements are separate      *)
(* steps, so that calls interleave at statement granularity.  PostgreSQL   *)
(* is modelled at READ COMMITTED: a statement sees the committed rows and  *)
(* the writes of its own transaction, SELECT ... FOR UPDATE takes the row  *)
(* lock of the row it returns, an INSERT of a key that another open        *)
(* transaction has inserted waits for that transaction, and an INSERT of a *)
(* key that is committed raises a unique violation (items.id is the        *)
(* primary key).                                                           *)
(***************************************************************************)
EXTENDS Integers, Sequences, FiniteSets, TLC

\* ---------------------------------------------------------------- bounds
MaxVer   == 3      \* versions explored: base_ver ranges over 0..MaxVer-1
MaxBatch == 2      \* longest UpsertBatch explored

Users == {"A", "B"}          \* user ids
Items == {"X", "Y"}          \* item ids (client chosen)
Blobs == {"e1", "e2"}        \* opaque ciphertexts

Names     == {"alice", "bob"}   \* usernames
Passwords == {"p1", "p2"}
IPs       == {"ip1", "ip2"}     \* client hosts
Ports     == {"5001", "5002"}   \* source ports of their connections
Deks      == {"d1", "d2"}       \* wrapped DEK payloads
Salts     == {"s1"}             \* what RandBytes(16) returns
Empty     == ""                 \* the empty string / empty byte slice

\* The login limiter's configuration (limiter.NewPG) and the token lifetime,
\* in ticks of the clock; the clock runs from 1 to MaxNow.
LimWindow   == 1
LimMaxFails == 2
LimBlockFor == 1
AccessTTL   == 2
Leeway      == 1      \* the leeway of the second token validation
MaxIdLen    == 2      \* longest identifier given to EncryptBlob
MaxNow      == 2
LimHorizon  == 3      \* the clock of the login specifications runs to here
MaxFailCount == 3     \* fail_count explored: failures beyond it are not taken
MaxLog      == 2      \* log records kept
Epoch       == 0      \* 'epoch', before every instant of the clock

\* Callers of the repository.  t1 and t2 are two devices of user A that run
\* concurrently, each submitting its own ciphertext (so that a stored
\* blob_enc tells which of them wrote it); t0 is a lone caller that acts for
\* any user with any ciphertext.
Tx    == {"t1", "t2"}
Lone  == "t0"
AllTx == Tx \cup {Lone}

UsersOf(t) == IF t = Lone THEN Users ELSE {"A"}
BlobsOf(t) == IF t = Lone THEN Blobs ELSE IF t = "t1" THEN {"e1"} ELSE {"e2"}

None == "none"

\* ------------------------------------------------------------ data model
\* model.Item (updated_at left out); NoRow stands for "no row with this id".
Row(u, v, d, b) == [user |-> u, ver |-> v, deleted |-> d, blob |-> b]
NoRow == Row(None, 0, FALSE, None)

\* model.UpsertItem
UpsertItem(i, bv, b) == [id |-> i, base |-> bv, blob |-> b]
BaseVers == 0 .. (MaxVer - 1)

\* model.ItemVersion (updated_at is never filled in by the repository)
ItemVersion(i, v) == [id |-> i, newVer |-> v]

\* A change that carries blob_enc whether the row is deleted or not.
ChangeWithBlob(i, r) ==
    [id |-> i, ver |-> r.ver, deleted |-> r.deleted, blob |-> r.blob]

\* model.Change; blob is None (nil) for a deleted row
Change(i, r) ==
    [id |-> i, ver |-> r.ver, deleted |-> r.deleted,
     blob |-> IF r.deleted THEN None ELSE r.blob]

EmptyTable == [i \in Items |-> NoRow]

VARIABLES
    store,     \* committed contents of table items: id -> row
    lock,      \* row locks taken by SELECT ... FOR UPDATE: id -> holder
    tx,        \* state of each repository call in flight
    resp,      \* response of the read that has just run
    seen,      \* sync client of user A: item -> the ver / deleted it holds
    since,     \* sync client: the highest ver it has observed
    synced,    \* sync client: it has polled since the last committed write
    users,     \* committed contents of table users: id -> row
    limiter,   \* committed contents of table auth_limiter
    now,       \* the clock (time.Now() and SQL now())
    login,     \* state of each LoginWithIP call in flight
    authResp,  \* response of the Register / SetWrappedDEK that has just run
    limResp,   \* result of the PG.Allow that has just run
    hist,      \* history of each limiter record
    rpc,       \* the RPC that the server has just answered
    box,       \* the EncryptBlob / DecryptBlob calls that have just run
    log        \* the records that the interceptors have written

itemVars == <<store, lock, tx>>
clientVars == <<seen, since, synced>>
authVars ==
    <<users, limiter, now, login, authResp, limResp, hist, rpc, box, log>>
vars == <<store, lock, tx, resp, seen, since, synced,
          users, limiter, now, login, authResp, limResp, hist, rpc, box, log>>

\* A call: kind and user are its arguments; up is the intent of the batch
\* that the loop is at (for Delete: its item and base_ver), idx the index of
\* that intent in the batch, left the number of intents after it.  A call
\* made by a handler of the server carries the request in call (operation,
\* metadata, body) and the intents that the loop has not reached in batch;
\* the intents of a call made on the repository directly are drawn as the
\* loop reaches them.
NoIntent == UpsertItem(None, 0, None)
IdleTx ==
    [pc |-> "idle", kind |-> None, user |-> None, left |-> 0,
     up |-> NoIntent, idx |-> 0, curVer |-> 0, wset |-> EmptyTable,
     results |-> <<>>, err |-> "ok", batch |-> <<>>, call |-> <<>>]

\* Response of GetItem (item, err) or GetChangesSince (changes).
NoResp ==
    [op |-> None, user |-> None, id |-> None, sinceVer |-> 0,
     item |-> NoRow, changes |-> <<>>, err |-> "ok"]

\* What the sync client holds for an item it has never been told about.
Unknown == [ver |-> 0, deleted |-> FALSE]

\* model.User (created_at left out); NoUser stands for "no row with this id".
User(id, name, hash, salt, kek, dek) ==
    [id |-> id, username |-> name, pwdHash |-> hash, saltAuth |-> salt,
     kekSalt |-> kek, wrapped |-> dek]
NoUser == User(None, None, None, None, None, Empty)

\* A row of auth_limiter; NoLim stands for "no row with this key".
LimRow(f, b, u) == [fails |-> f, blockedUntil |-> b, updatedAt |-> u]
NoLim == LimRow(0, Epoch, Epoch)

\* peer.Peer.Addr of a TCP connection.
Addr(ip, port) == [ip |-> ip, port |-> port]

\* remoteIP: p.Addr.String(), the address in the form "host:port".
RemoteIP(addr) == <<addr.ip, ":", addr.port>>

\* limiter.HashIP: SHA-256 of the string it is given.
HashIP(ip) == <<"sha256", ip>>

\* The Login calls.  l1 and l2 arrive on one connection, l3 on another
\* connection of the same host, l4 on a connection of another host.
Logins == {"l1", "l2", "l3", "l4"}
PeerOf(l) ==
    IF l \in {"l1", "l2"} THEN Addr("ip1", "5001")
    ELSE IF l = "l3" THEN Addr("ip1", "5002")
    ELSE Addr("ip2", "5001")

\* Logins are observed for one username (registered or not).
LoginNames == {"alice"}
LimKeys == LoginNames \X {HashIP(RemoteIP(PeerOf(l))) : l \in Logins}

\* Texts of UUIDs: uuid.UUID.String gives the canonical one, the urn: form
\* is another text of the same UUID, NotUUID is a text of none.  None is
\* uuid.Nil, whose text is well formed.
UUIDString(u) == <<"canonical", u>>
UUIDUrn(u)    == <<"urn", u>>
NotUUID       == <<"text", None>>

\* uuid.FromString
FromString(s) ==
    IF s[1] \in {"canonical", "urn"} THEN [id |-> s[2], err |-> "ok"]
    ELSE [id |-> None, err |-> "parse"]

\* A NumericDate claim that the token does not carry.
NoDate == Epoch - 1

\* The key of the server (flag -jwt-key) and a key that is not it.
SignKey  == "jwtkey"
OtherKey == "otherkey"

\* A signed JWT: the algorithm of its header, the key its signature was
\* made with and its registered claims.
Jwt(alg, key, sub, iat, nbf, exp) ==
    [form |-> "jws", alg |-> alg, key |-> key, sub |-> sub, iat |-> iat,
     nbf |-> nbf, exp |-> exp]

\* A token string that is not a JWT, and the empty string.
Garbage == [Jwt(None, None, NotUUID, NoDate, NoDate, NoDate)
               EXCEPT !.form = "garbage"]
NoToken == [Garbage EXCEPT !.form = Empty]

\* The access token that issueAccessToken signs: HS256 with the server's key,
\* claims sub, iat and exp.
Token(sub, iat, exp) == Jwt("HS256", SignKey, sub, iat, NoDate, exp)

\* The authorization metadata of a request: scheme is the first word of the
\* header value, NoMD a request without the header.
MD(scheme, tok) == [scheme |-> scheme, token |-> tok]
NoMD == MD(None, NoToken)
Bearer(tok) == MD("Bearer", tok)

\* bearerTokenFromMD: the prefix "bearer " in any case, then a token that is
\* not empty.
BearerTokenFromMD(md) ==
    IF md.scheme \in {"Bearer", "bearer", "BEARER"} /\ md.token # NoToken
    THEN [token |-> md.token, err |-> "ok"]
    ELSE [token |-> NoToken, err |-> "no bearer token"]

\* jwt.Validator.Validate of the registered claims at instant t with leeway
\* lw: exp and nbf are verified where the token carries them, iat is not.
Validate(claims, t, lw) ==
    /\ (claims.exp # NoDate => t - lw < claims.exp)
    /\ (claims.nbf # NoDate => claims.nbf <= t + lw)

\* jwt.ParseWithClaims with the key function of userIDFromCtx and no parser
\* option: the token is parsed, its algorithm must be HS256, its signature
\* must verify under the server's key, and its claims are validated without
\* leeway.
ParseWithClaims(tok, t) ==
    /\ tok.form = "jws"
    /\ tok.alg = "HS256"
    /\ tok.key = SignKey
    /\ Validate(tok, t, 0)

\* A parse that accepts every HMAC algorithm.
UserIDAnyAlg(md, t) ==
    LET b == BearerTokenFromMD(md)
    IN IF b.err # "ok" THEN [id |-> None, err |-> b.err]
       ELSE IF ~(b.token.form = "jws" /\ b.token.key = SignKey
                 /\ Validate(b.token, t, 0))
       THEN [id |-> None, err |-> "invalid token"]
       ELSE [id |-> FromString(b.token.sub).id,
             err |-> IF FromString(b.token.sub).err = "ok" THEN "ok"
                     ELSE "bad subject"]

\* Server.userIDFromCtx at instant t: the user id of the request, or an
\* error.
UserIDFromCtx(md, t) ==
    LET b == BearerTokenFromMD(md)
    IN IF b.err # "ok" THEN [id |-> None, err |-> b.err]
       ELSE IF ~ParseWithClaims(b.token, t)
       THEN [id |-> None, err |-> "invalid token"]
       ELSE IF ~Validate(b.token, t, Leeway)
       THEN [id |-> None, err |-> "token expired or not valid yet"]
       ELSE IF FromString(b.token.sub).err # "ok"
       THEN [id |-> None, err |-> "bad subject"]
       ELSE [id |-> FromString(b.token.sub).id, err |-> "ok"]

\* A LoginWithIP call: lookup is the error of GetByUsername, hashes the
\* number of HashPassword computations the call has made.
IdleLogin ==
    [pc |-> "idle", username |-> None, password |-> None, ip |-> None,
     user |-> NoUser, lookup |-> "ok", hashes |-> 0, blockUntil |-> Epoch,
     token |-> NoToken, err |-> "ok"]

\* Result of PG.Allow called on key.
NoLimResp ==
    [op |-> None, key |-> None, allowed |-> FALSE, retryAfter |-> 0,
     err |-> "ok"]

\* What has happened to a limiter record since it was absent or last reset
\* by Success: n Failure calls have completed (counted up to
\* MaxFailCount + 1), the first at instant first and the latest at instant
\* last (after a reset, last is that of the failures it wiped out); clean
\* says that no statement on the record has failed in the backend; v counts
\* the calls that have found the password wrong (-1: not counted).  The
\* history is kept where on is TRUE: in the login specifications.
NoHist ==
    [on |-> TRUE, n |-> 0, first |-> Epoch, last |-> Epoch, clean |-> TRUE,
     v |-> -1]
OffHist == [NoHist EXCEPT !.on = FALSE]

NoAuthResp ==
    [op |-> None, id |-> None, username |-> None, payload |-> Empty,
     err |-> "ok"]

\* An RPC and its answer: md and req are the metadata and the body of the
\* request, code the status code of the answer, user the user id that the
\* handler gave to the service (None where it called none), err the error
\* of the service, calls the service and repository methods that ran, out
\* the results carried by the answer, token the access token of a Login
\* answer.
NoRpc ==
    [op |-> None, md |-> NoMD, req |-> <<>>, code |-> None, user |-> None,
     err |-> None, calls |-> <<>>, out |-> <<>>, token |-> NoToken]

\* ------------------------------------------------ client-side blob crypto
\* Keys of chacha20poly1305.KeySize bytes, and a key of another length.
BlobKeys == {"k1", "k2"}
ShortKey == "k0"

\* Identifiers are byte strings of any length up to MaxIdLen.
IdBytes == {1, 2}
BlobIds == UNION {[1 .. n -> IdBytes] : n \in 0 .. MaxIdLen}
Plains  == {"p1", "p2"}
Nonces  == {"n1"}            \* what Rand(NonceSizeX) returns

\* binary.BigEndian.PutUint64(v[:], uint64(ver)) for 0 <= ver < 2^31: the
\* four high bytes are zero.
BE8(ver) ==
    [k \in 1 .. 8 |-> IF k <= 4 THEN 0 ELSE (ver \div (256 ^ (8 - k))) % 256]

\* The associated data: userID, itemID and the 8 bytes of ver, appended one
\* after the other.
AAD(userID, itemID, ver) == userID \o itemID \o BE8(ver)

\* XChaCha20-Poly1305: aead.Seal gives a ciphertext that aead.Open turns
\* back into the plaintext under the same key, nonce and associated data,
\* and that it rejects under any other.
Seal(key, nonce, plain, aad) ==
    [key |-> key, nonce |-> nonce, plain |-> plain, aad |-> aad]
Open(key, nonce, ct, aad) ==
    IF ct.key = key /\ ct.nonce = nonce /\ ct.aad = aad
    THEN [out |-> ct.plain, err |-> "ok"]
    ELSE [out |-> None, err |-> "message authentication failed"]

\* A blob: the nonce, then the sealed box.  ShortBlob is a blob of fewer
\* than NonceSizeX bytes.
Blob(nonce, ct) == [nonce |-> nonce, ct |-> ct]
NoCt      == Seal(None, None, None, <<>>)
ShortBlob == Blob(Empty, NoCt)

\* EncryptBlob with the nonce that Rand returned.
EncryptBlob(key, userID, itemID, ver, plain, nonce) ==
    IF key \notin BlobKeys
    THEN [blob |-> ShortBlob, err |-> "bad key length"]
    ELSE [blob |-> Blob(nonce, Seal(key, nonce, plain,
                                    AAD(userID, itemID, ver))),
          err |-> "ok"]

\* DecryptBlob
DecryptBlob(key, userID, itemID, ver, blob) ==
    IF blob.nonce = Empty THEN [out |-> None, err |-> "blob too short"]
    ELSE IF key \notin BlobKeys THEN [out |-> None, err |-> "bad key length"]
    ELSE Open(key, blob.nonce, blob.ct, AAD(userID, itemID, ver))

\* The arguments of a call and what it returned; enc is the EncryptBlob call
\* that made blob, dec the DecryptBlob call that was then given it.
BlobArgs(key, userID, itemID, ver) ==
    [key |-> key, user |-> userID, item |-> itemID, ver |-> ver]
NoBox ==
    [op |-> None, enc |-> BlobArgs(None, <<>>, <<>>, 0), plain |-> None,
     blob |-> ShortBlob, encErr |-> "ok",
     dec |-> BlobArgs(None, <<>>, <<>>, 0), out |-> None, err |-> "ok"]

InitStored(st) ==
    /\ users = [u \in Users |-> NoUser]
    /\ limiter = [k \in LimKeys |-> NoLim]
    /\ now = 1
    /\ login = [l \in Logins |-> IdleLogin]
    /\ authResp = NoAuthResp
    /\ limResp = NoLimResp
    /\ hist = [k \in LimKeys |-> OffHist]
    /\ rpc = NoRpc
    /\ store = st
    /\ lock = [i \in Items |-> None]
    /\ tx = [t \in AllTx |-> IdleTx]
    /\ resp = NoResp
    /\ seen = [i \in Items |-> Unknown]
    /\ since = 0
    /\ synced = FALSE
    /\ log = <<>>

InitServer == InitStored(EmptyTable)

Init ==
    /\ InitServer
    /\ box = NoBox

\* ------------------------------------------------- transactions (pgx.Tx)
InFlight(t) == tx[t].pc \in {"sel", "wait", "upd", "ins", "end", "rb"}

\* The SELECT without `AND user_id=$2`: the committed row whoever owns it.
VisibleAnyUser(st, ws, u, i) ==
    IF ws[i] # NoRow THEN ws[i] ELSE st[i]

\* The SELECT with `AND deleted=false`: a tombstone is not found.
VisibleLive(st, ws, u, i) ==
    IF ws[i] # NoRow THEN ws[i]
    ELSE IF st[i] # NoRow /\ st[i].user = u /\ ~st[i].deleted THEN st[i]
    ELSE NoRow

\* The SELECT issued on the pool instead of the transaction: it does not see
\* the transaction's own writes.
VisibleCommitted(st, ws, u, i) ==
    IF st[i] # NoRow /\ st[i].user = u THEN st[i] ELSE NoRow

\* What `SELECT ... FROM items WHERE id=$1 AND user_id=$2` returns to a
\* statement whose transaction has the pending writes ws: its own write of
\* the row if any, else the committed row if it belongs to user u.
Visible(st, ws, u, i) ==
    IF ws[i] # NoRow THEN ws[i]
    ELSE IF st[i] # NoRow /\ st[i].user = u THEN st[i]
    ELSE NoRow

\* A write issued on the pool instead of the transaction: visible at once.
TxExecOnPool(st, ws, i, r) ==
    [store |-> [st EXCEPT ![i] = r], wset |-> [ws EXCEPT ![i] = r]]

\* tx.Exec: the write stays private to the transaction until it commits.
TxExec(st, ws, i, r) == [store |-> st, wset |-> [ws EXCEPT ![i] = r]]

\* The table after COMMIT of the pending writes ws.
Overlay(st, ws) == [i \in Items |-> IF ws[i] # NoRow THEN ws[i] ELSE st[i]]

\* A deferred function that commits whatever the call returns.
TxEndAlwaysCommit(st, ws, err) == Overlay(st, ws)

\* The deferred function of UpsertBatch and Delete: Rollback when the call
\* is returning an error, Commit otherwise.
TxEnd(st, ws, err) == IF err # "ok" THEN st ELSE Overlay(st, ws)

\* The write keeps the version it read.
NewVerSame(curVer) == curVer

\* newVer := curVer + 1
NewVer(curVer) == curVer + 1

\* The row written by `upd` of UpsertBatch / the row inserted by `ins`.
UpsertRow(u, up, ver) == Row(u, ver, FALSE, up.blob)

\* A Delete that marks the row and leaves its ver alone.
DeleteRowNoBump(r, ver) == [r EXCEPT !.deleted = TRUE]

\* A Delete that wipes the ciphertext of the row.
DeleteRowWipe(r, ver) == [r EXCEPT !.deleted = TRUE, !.ver = ver, !.blob = None]

\* The row written by `upd` of Delete: deleted and ver only, blob_enc kept.
DeleteRow(r, ver) == [r EXCEPT !.deleted = TRUE, !.ver = ver]

\* The version check left out: an existing row is always updated.
AfterSelectNoCheck(kind, found, curVer, baseVer) ==
    IF found THEN "upd"
    ELSE IF kind = "delete" THEN "notfound"
         ELSE IF baseVer # 0 THEN "conflict" ELSE "ins"

\* A creation that accepts any base_ver.
AfterSelectCreateAnyBase(kind, found, curVer, baseVer) ==
    IF found
    THEN IF curVer # baseVer THEN "conflict" ELSE "upd"
    ELSE IF kind = "delete" THEN "notfound" ELSE "ins"

\* The Go code between the SELECT and the write: which statement follows,
\* or which error ends the call.  found: Scan returned a row.
AfterSelect(kind, found, curVer, baseVer) ==
    IF found
    THEN IF curVer # baseVer THEN "conflict" ELSE "upd"
    ELSE IF kind = "delete" THEN "notfound"
         ELSE IF baseVer # 0 THEN "conflict" ELSE "ins"

\* Another open transaction has inserted a row with this id and has not
\* finished: an INSERT of the same id waits for it.
InsertBlockedBy(t, i) ==
    {o \in AllTx \ {t} : InFlight(o) /\ store[i] = NoRow /\ tx[o].wset[i] # NoRow}

\* The transactions that t's statement waits for.
WaitsFor(t) ==
    IF tx[t].pc = "wait" /\ lock[tx[t].up.id] \notin {None, t}
    THEN {lock[tx[t].up.id]}
    ELSE IF tx[t].pc = "ins" /\ store[tx[t].up.id] = NoRow
    THEN InsertBlockedBy(t, tx[t].up.id)
    ELSE {}

\* The row locks once t's transaction has ended.
Released(t) == [i \in Items |-> IF lock[i] = t THEN None ELSE lock[i]]

\* The Go code returns an error of its own after a SELECT (version conflict,
\* not found): `return nil, err`.  The transaction is still open, with its
\* writes and its row locks, until the deferred function has rolled it back.
Failing(rec, e) ==
    [rec EXCEPT !.pc = "rb", !.err = e, !.results = <<>>, !.curVer = 0,
                !.left = 0, !.batch = <<>>]

\* A statement fails on the server: PostgreSQL aborts the transaction at the
\* error, which drops its writes and releases its locks, and the call returns
\* `nil, err`; the deferred Rollback finds the transaction aborted.
Failed(rec, e) ==
    [rec EXCEPT !.pc = "done", !.err = e, !.results = <<>>, !.curVer = 0,
                !.left = 0, !.wset = EmptyTable, !.batch = <<>>]

\* The client keeps the access token of its last Login answer.
Keep(answer) == [answer EXCEPT !.token = rpc.token]

\* What a step of a repository call leaves of the other variables: the
\* last read response and the last RPC answer are gone, and a committed
\* write makes the sync client's state stale.
Others ==
    /\ resp' = NoResp
    /\ rpc' = Keep(NoRpc)
    /\ synced' = (synced /\ store' = store)
    /\ UNCHANGED <<seen, since, users, limiter, now, login, authResp,
                   limResp, hist, box, log>>

\* ItemRepo.UpsertBatch on a batch of n intents: BeginTx.
UpsertBatchBegin(t) ==
    /\ tx[t].pc = "idle"
    /\ \E u \in UsersOf(t), n \in 1 .. MaxBatch :
         tx' = [tx EXCEPT ![t] =
                  [IdleTx EXCEPT !.pc = "sel", !.kind = "upsert", !.user = u,
                                 !.left = n]]
    /\ UNCHANGED <<store, lock>>
    /\ Others

\* ItemRepo.Delete: BeginTx.
DeleteBegin(t) ==
    /\ tx[t].pc = "idle"
    /\ \E u \in UsersOf(t) :
         tx' = [tx EXCEPT ![t] =
                  [IdleTx EXCEPT !.pc = "sel", !.kind = "delete", !.user = u,
                                 !.left = 1]]
    /\ UNCHANGED <<store, lock>>
    /\ Others

\* `SELECT ver ... FOR UPDATE` for the intent the loop is at, and the
\* version check that follows it.  A row locked by another transaction
\* makes the statement wait; the row that the statement returns is locked
\* whatever the check then says.
SelectWith(t, rec) ==
    LET up  == rec.up
        i   == up.id
        r   == Visible(store, rec.wset, rec.user, i)
        nxt == AfterSelect(rec.kind, r # NoRow, r.ver, up.base)
    IN IF r # NoRow /\ lock[i] \notin {None, t}
       THEN /\ tx[t].pc = "sel"
            /\ tx' = [tx EXCEPT ![t] = [rec EXCEPT !.pc = "wait"]]
            /\ UNCHANGED <<lock, store>>
       ELSE IF nxt \in {"upd", "ins"}
       THEN /\ lock' = IF r # NoRow THEN [lock EXCEPT ![i] = t] ELSE lock
            /\ tx' = [tx EXCEPT ![t] = [rec EXCEPT !.pc = nxt, !.curVer = r.ver]]
            /\ UNCHANGED store
       ELSE /\ lock' = IF r # NoRow THEN [lock EXCEPT ![i] = t] ELSE lock
            /\ tx' = [tx EXCEPT ![t] = Failing(rec, nxt)]
            /\ UNCHANGED store

\* The intents that the loop of call t may find next in its batch.
NextIntents(t) ==
    IF tx[t].batch # <<>> THEN {Head(tx[t].batch)}
    ELSE {UpsertItem(i, bv, b) :
            i \in Items, bv \in BaseVers,
            b \in (IF tx[t].kind = "delete" THEN {None} ELSE BlobsOf(t))}

\* The loop takes the next intent of the batch (Delete: its arguments) and
\* issues the SELECT.
SelectForUpdate(t) ==
    /\ tx[t].pc = "sel"
    /\ \E up \in NextIntents(t) :
         SelectWith(t, [tx[t] EXCEPT !.up = up,
                                     !.idx = Len(tx[t].results),
                                     !.left = @ - 1,
                                     !.batch = IF @ = <<>> THEN @ ELSE Tail(@)])
    /\ Others

\* The row lock was released: the waiting SELECT runs on the committed row.
LockGranted(t) ==
    /\ tx[t].pc = "wait"
    /\ SelectWith(t, tx[t])
    /\ Others

\* After a write: the loop of UpsertBatch goes on to the next intent, or the
\* call returns its results.
Advance(rec, ver) ==
    [rec EXCEPT !.results = Append(@, ItemVersion(rec.up.id, ver)),
                !.pc = IF rec.left > 0 THEN "sel" ELSE "end",
                !.curVer = 0]

\* `UPDATE items SET ... WHERE id=$1 AND user_id=$2` of UpsertBatch / Delete.
ExecUpdate(t) ==
    /\ tx[t].pc = "upd"
    /\ LET i      == tx[t].up.id
           newVer == NewVer(tx[t].curVer)
           old    == Visible(store, tx[t].wset, tx[t].user, i)
           row    == IF tx[t].kind = "delete"
                     THEN DeleteRow(old, newVer)
                     ELSE UpsertRow(tx[t].user, tx[t].up, newVer)
           w      == TxExec(store, tx[t].wset, i, row)
       IN /\ store' = w.store
          /\ tx' = [tx EXCEPT ![t] = Advance([@ EXCEPT !.wset = w.wset], newVer)]
    /\ UNCHANGED lock
    /\ Others

\* `INSERT INTO items ... VALUES ($1,$2,$3,1,false)` of UpsertBatch.
ExecInsert(t) ==
    /\ tx[t].pc = "ins"
    /\ LET i == tx[t].up.id IN
       IF store[i] # NoRow
       THEN \* unique violation on items_pkey: the call returns the error
            /\ tx' = [tx EXCEPT ![t] = Failed(@, "unique")]
            /\ store' = TxEnd(store, tx[t].wset, "unique")
            /\ lock' = Released(t)
       ELSE /\ InsertBlockedBy(t, i) = {}
            /\ LET w == TxExec(store, tx[t].wset, i,
                               UpsertRow(tx[t].user, tx[t].up, 1))
               IN /\ store' = w.store
                  /\ tx' = [tx EXCEPT ![t] = Advance([@ EXCEPT !.wset = w.wset], 1)]
            /\ UNCHANGED lock
    /\ Others

\* Any statement can fail (connection lost, context cancelled).
BackendFail(t) ==
    /\ tx[t].pc \in {"sel", "wait", "upd", "ins"}
    /\ tx' = [tx EXCEPT ![t] = Failed(@, "backend")]
    /\ store' = TxEnd(store, tx[t].wset, "backend")
    /\ lock' = Released(t)
    /\ Others

\* A server without deadlock detection: a wait cycle is never broken.
DeadlockUndetected(t) ==
    /\ FALSE
    /\ UNCHANGED vars

\* PostgreSQL's deadlock detector: a statement in a wait cycle is aborted.
DeadlockAbort(t) ==
    /\ \E o \in WaitsFor(t) : t \in WaitsFor(o)
    /\ tx' = [tx EXCEPT ![t] = Failed(@, "deadlock")]
    /\ store' = TxEnd(store, tx[t].wset, "deadlock")
    /\ lock' = Released(t)
    /\ Others

\* The deferred function of a call that is returning an error of its own:
\* tx.Rollback drops the writes and releases the row locks.
Rollback(t) ==
    /\ tx[t].pc = "rb"
    /\ store' = TxEnd(store, tx[t].wset, tx[t].err)
    /\ lock' = Released(t)
    /\ tx' = [tx EXCEPT ![t].pc = "done", ![t].wset = EmptyTable]
    /\ Others

\* `return results, nil`: the deferred function commits; the row locks are
\* released.
Commit(t) ==
    /\ tx[t].pc = "end"
    /\ store' = TxEnd(store, tx[t].wset, tx[t].err)
    /\ lock' = Released(t)
    /\ tx' = [tx EXCEPT ![t].pc = "done", ![t].wset = EmptyTable]
    /\ Others

\* tx.Commit fails: `err = e`, the named result keeps its value.
CommitFail(t) ==
    /\ tx[t].pc = "end"
    /\ tx[t].err = "ok"
    /\ lock' = Released(t)
    /\ tx' = [tx EXCEPT ![t].pc = "done", ![t].err = "commit",
                        ![t].wset = EmptyTable]
    /\ UNCHANGED store
    /\ Others

\* The caller takes the result; the slot is free for the next call.
Return(t) ==
    /\ tx[t].pc = "done"
    /\ tx' = [tx EXCEPT ![t] = IdleTx]
    /\ UNCHANGED <<store, lock>>
    /\ Others

\* --------------------------------------------------- reads (pool.Query)
\* A GetItem that hides tombstones.
GetItemLive(st, u, i) ==
    IF st[i] # NoRow /\ st[i].user = u /\ ~st[i].deleted
    THEN [item |-> st[i], err |-> "ok"]
    ELSE [item |-> NoRow, err |-> "notfound"]

\* ItemRepo.GetItem: `SELECT ... FROM items WHERE user_id=$1 AND id=$2` on the
\* committed table; the row comes back whole, deleted or not.
GetItem(st, u, i) ==
    IF st[i] # NoRow /\ st[i].user = u
    THEN [item |-> st[i], err |-> "ok"]
    ELSE [item |-> NoRow, err |-> "notfound"]

\* `ver >= $2` in place of `ver > $2`.
ChangedIdsFrom(st, u, sinceVer) ==
    {i \in Items : st[i] # NoRow /\ st[i].user = u /\ st[i].ver >= sinceVer}

\* The ids of the rows `WHERE user_id=$1 AND ver>$2` selects.
ChangedIds(st, u, sinceVer) ==
    {i \in Items : st[i] # NoRow /\ st[i].user = u /\ st[i].ver > sinceVer}

\* The enumerations of a set of ids.
Orders(S) ==
    {o \in [1 .. Cardinality(S) -> S] :
        \A j, k \in 1 .. Cardinality(S) : j # k => o[j] # o[k]}

\* `ORDER BY ver ASC`: rows of equal ver come in any order.
OrderedByVer(st, o) ==
    \A k \in 1 .. (Len(o) - 1) : st[o[k]].ver <= st[o[k + 1]].ver

\* ItemRepo.GetChangesSince: the result sets the query can produce, each row
\* scanned into a model.Change (blob_enc only when the row is not deleted).
GetChangesSince(st, u, sinceVer) ==
    {[k \in 1 .. Len(o) |-> Change(o[k], st[o[k]])] :
        o \in {q \in Orders(ChangedIds(st, u, sinceVer)) : OrderedByVer(st, q)}}

\* The reads are observed as user A, with since_ver below MaxVer.
Reader == "A"
Sinces == 0 .. (MaxVer - 1)

DoGetItem(u, i) ==
    /\ resp' = [NoResp EXCEPT !.op = "GetItem", !.user = u, !.id = i,
                              !.item = GetItem(store, u, i).item,
                              !.err = GetItem(store, u, i).err]
    /\ UNCHANGED <<itemVars, clientVars, authVars>>

DoGetChangesSince(u, v) ==
    /\ \E out \in GetChangesSince(store, u, v) :
         resp' = [NoResp EXCEPT !.op = "GetChangesSince", !.user = u,
                                !.sinceVer = v, !.changes = out]
    /\ UNCHANGED <<itemVars, clientVars, authVars>>

\* ------------------------------------------------------------ sync client
\* A client of user A doing delta sync: it polls GetChanges with since_ver =
\* the highest ver it has observed, and keeps what the changes tell it.
Max(a, b) == IF a >= b THEN a ELSE b

RECURSIVE ApplyChanges(_, _)
ApplyChanges(sn, out) ==
    IF out = <<>> THEN sn
    ELSE ApplyChanges(
           [sn EXCEPT ![Head(out).id] =
               [ver |-> Head(out).ver, deleted |-> Head(out).deleted]],
           Tail(out))

RECURSIVE HighestVer(_, _)
HighestVer(hv, out) ==
    IF out = <<>> THEN hv ELSE HighestVer(Max(hv, Head(out).ver), Tail(out))

Poll ==
    /\ \E out \in GetChangesSince(store, "A", since) :
         /\ seen' = ApplyChanges(seen, out)
         /\ since' = HighestVer(since, out)
    /\ synced' = TRUE
    /\ UNCHANGED <<itemVars, resp, authVars>>

\* ------------------------------------------------------------ user store
\* crypto.HashPassword: Argon2id of the password under the salt.
HashPassword(password, salt) == <<"argon2id", password, salt>>

\* crypto.VerifyPassword
VerifyPassword(password, salt, expected) ==
    HashPassword(password, salt) = expected

\* The ids whose row has this username (username is UNIQUE: at most one).
IdsOf(us, name) == {u \in Users : us[u] # NoUser /\ us[u].username = name}

\* UserRepo.Create: a unique violation (id or username) is a version
\* conflict.
CreateUser(us, u) ==
    IF us[u.id] # NoUser \/ IdsOf(us, u.username) # {}
    THEN [users |-> us, err |-> "conflict"]
    ELSE [users |-> [us EXCEPT ![u.id] = u], err |-> "ok"]

\* UserRepo.GetByUsername
GetByUsername(us, name) ==
    IF IdsOf(us, name) = {}
    THEN [user |-> NoUser, err |-> "notfound"]
    ELSE [user |-> us[CHOOSE u \in IdsOf(us, name) : TRUE], err |-> "ok"]

\* An UPDATE without the emptiness condition.
SetWrappedDEKAlways(us, id, wrapped) ==
    IF id \in Users /\ us[id] # NoUser
    THEN [users |-> [us EXCEPT ![id].wrapped = wrapped], err |-> "ok"]
    ELSE [users |-> us, err |-> "conflict"]

\* UserRepo.SetWrappedDEKIfEmpty: one UPDATE ... WHERE id=$1 AND
\* octet_length(wrapped_dek)=0; no row affected is a version conflict.
SetWrappedDEKIfEmpty(us, id, wrapped) ==
    IF id \in Users /\ us[id] # NoUser /\ us[id].wrapped = Empty
    THEN [users |-> [us EXCEPT ![id].wrapped = wrapped], err |-> "ok"]
    ELSE [users |-> us, err |-> "conflict"]

\* AuthServiceImpl.SetWrappedDEK; id None is uuid.Nil.
SetWrappedDEK(us, id, wrapped) ==
    IF id = None \/ wrapped = Empty
    THEN [users |-> us, err |-> "validation"]
    ELSE SetWrappedDEKIfEmpty(us, id, wrapped)

\* AuthServiceImpl.Register with the id and salts it has drawn.
Register(us, uid, name, password, salt, kek) ==
    IF name = Empty \/ password = Empty
    THEN [users |-> us, err |-> "validation"]
    ELSE CreateUser(us, User(uid, name, HashPassword(password, salt),
                             salt, kek, Empty))

\* A step of the auth service leaves the item store and its clients alone.
AuthOthers == UNCHANGED <<itemVars, resp, clientVars, box, log>>

\* A call of Register; uuid.NewV4 draws an id that no row has.
DoRegister(name, password) ==
    /\ \E uid \in {u \in Users : users[u] = NoUser}, salt, kek \in Salts,
          fail \in BOOLEAN :
         LET r == IF fail /\ name # Empty /\ password # Empty
                  THEN [users |-> users, err |-> "backend"]
                  ELSE Register(users, uid, name, password, salt, kek)
         IN /\ users' = r.users
            /\ authResp' = [NoAuthResp EXCEPT
                              !.op = "Register", !.username = name,
                              !.id = IF r.err = "ok" THEN uid ELSE None,
                              !.err = r.err]
    /\ rpc' = NoRpc
    /\ UNCHANGED <<limiter, now, login, limResp, hist>>
    /\ AuthOthers

\* A call of SetWrappedDEK by the bearer of a token for id.
DoSetWrappedDEK(id, wrapped) ==
    /\ \E fail \in BOOLEAN :
         LET r == IF fail /\ id # None /\ wrapped # Empty
                  THEN [users |-> users, err |-> "backend"]
                  ELSE SetWrappedDEK(users, id, wrapped)
         IN /\ users' = r.users
            /\ authResp' = [NoAuthResp EXCEPT
                              !.op = "SetWrappedDEK", !.id = id,
                              !.payload = wrapped, !.err = r.err]
    /\ rpc' = NoRpc
    /\ UNCHANGED <<limiter, now, login, limResp, hist>>
    /\ AuthOthers

\* -------------------------------------------------------- login limiter
\* An Allow that still refuses at the instant blocked_until.
AllowInclusive(lim, k, t) ==
    IF lim[k] # NoLim /\ lim[k].blockedUntil >= t
    THEN [allowed |-> FALSE, retryAfter |-> lim[k].blockedUntil - t]
    ELSE [allowed |-> TRUE, retryAfter |-> 0]

\* PG.Allow at instant t: refused while blocked_until is after t, with the
\* time left until then; both readings of the clock fall in the same tick.
Allow(lim, k, t) ==
    IF lim[k] # NoLim /\ lim[k].blockedUntil > t
    THEN [allowed |-> FALSE, retryAfter |-> lim[k].blockedUntil - t]
    ELSE [allowed |-> TRUE, retryAfter |-> 0]

\* An upsert that counts on whatever the age of the record.
FailureUpsertNoWindow(lim, k, t) ==
    IF lim[k] = NoLim
    THEN [lim EXCEPT ![k] = LimRow(1, Epoch, t)]
    ELSE [lim EXCEPT ![k].fails = @ + 1, ![k].updatedAt = t]

\* An upsert that starts the count anew once the record's block has expired.
FailureUpsertExpiryResets(lim, k, t) ==
    IF lim[k] = NoLim
    THEN [lim EXCEPT ![k] = LimRow(1, Epoch, t)]
    ELSE [lim EXCEPT
            ![k].fails = IF \/ t - lim[k].updatedAt > LimWindow
                            \/ (lim[k].blockedUntil # Epoch
                                /\ lim[k].blockedUntil <= t)
                         THEN 1 ELSE @ + 1,
            ![k].updatedAt = t]

\* The upsert of PG.Failure at instant t; it returns fail_count.
FailureUpsert(lim, k, t) ==
    IF lim[k] = NoLim
    THEN [lim EXCEPT ![k] = LimRow(1, Epoch, t)]
    ELSE [lim EXCEPT
            ![k].fails = IF t - lim[k].updatedAt > LimWindow THEN 1 ELSE @ + 1,
            ![k].updatedAt = t]

\* The UPDATE of PG.Failure that sets the block.
FailureBlock(lim, k, until) ==
    IF lim[k] = NoLim THEN lim ELSE [lim EXCEPT ![k].blockedUntil = until]

\* A Success that lifts the block and keeps the count.
SuccessUnblockOnly(lim, k, t) ==
    [lim EXCEPT ![k].blockedUntil = Epoch, ![k].updatedAt = t]

\* PG.Success at instant t.
Success(lim, k, t) == [lim EXCEPT ![k] = LimRow(0, Epoch, t)]

\* A token that expires at the instant it is issued.
IssueAccessTokenNoTTL(uid, t) == Token(UUIDString(uid), t, t)

\* AuthServiceImpl.issueAccessToken at instant t.
IssueAccessToken(uid, t) == Token(UUIDString(uid), t, t + AccessTTL)

\* A key that leaves the address out: one record per username.
LimKeyAnyIP(l) == <<login[l].username, HashIP(RemoteIP(PeerOf("l1")))>>

\* The limiter key of a LoginWithIP call.
LimKey(l) == <<login[l].username, HashIP(login[l].ip)>>

\* The history of record k after a Failure call that read the clock at t
\* has completed.
HistFailure(h, k, t) ==
    IF ~h[k].on THEN h
    ELSE [h EXCEPT ![k].n = IF @ > MaxFailCount THEN @ ELSE @ + 1,
                   ![k].first = IF h[k].n = 0 THEN t ELSE @,
                   ![k].last = t]

\* ... after a statement on record k has failed in the backend.
HistBroken(h, k) == IF ~h[k].on THEN h ELSE [h EXCEPT ![k].clean = FALSE]

\* ... after Success has rewritten record k.
HistSuccess(h, k) ==
    IF ~h[k].on THEN h
    ELSE [h EXCEPT ![k] = [NoHist EXCEPT !.last = h[k].last,
                                         !.v = IF h[k].v < 0 THEN @ ELSE 0]]

\* ... after a call for record k has found the password wrong.
HistVerified(h, k) ==
    IF ~h[k].on \/ h[k].v < 0 \/ h[k].v > MaxFailCount THEN h
    ELSE [h EXCEPT ![k].v = @ + 1]

LoginDone(rec, e) ==
    [rec EXCEPT !.pc = "done", !.err = e, !.user = NoUser,
                !.password = None, !.lookup = "ok", !.hashes = 0,
                !.blockUntil = Epoch]

\* A step of a login: the last Register / SetWrappedDEK / Allow response is
\* gone.
LoginOthers ==
    /\ authResp' = NoAuthResp
    /\ limResp' = NoLimResp
    /\ AuthOthers

\* ... and so is the last RPC response.
LoginFrame ==
    /\ rpc' = NoRpc
    /\ LoginOthers

\* Server.Login (remoteIP) and LoginWithIP: HashIP and lim.Allow.
LoginBegin(l) ==
    /\ login[l].pc = "idle"
    /\ \E name \in LoginNames, pw \in Passwords, fail \in BOOLEAN :
         LET ip == RemoteIP(PeerOf(l))
             rec == [IdleLogin EXCEPT !.username = name, !.password = pw,
                                      !.ip = ip]
         IN login' = [login EXCEPT ![l] =
               IF fail THEN LoginDone(rec, "backend")
               ELSE IF ~Allow(limiter, <<name, HashIP(ip)>>, now).allowed
               THEN LoginDone(rec, "ratelimited")
               ELSE [rec EXCEPT !.pc = "lookup"]]
    /\ UNCHANGED <<users, limiter, now, hist>>
    /\ LoginFrame

\* A lookup whose error ends the call and is returned as it is.
LoginLookupLeaky(l) ==
    /\ login[l].pc = "lookup"
    /\ \E fail \in BOOLEAN :
         LET r == IF fail THEN [user |-> NoUser, err |-> "backend"]
                  ELSE GetByUsername(users, login[l].username)
         IN login' = [login EXCEPT ![l] =
               IF r.err # "ok"
               THEN LoginDone(@, r.err)
               ELSE IF ~VerifyPassword(login[l].password, r.user.saltAuth,
                                       r.user.pwdHash)
               THEN [@ EXCEPT !.pc = "failure", !.password = None,
                              !.hashes = 1]
               ELSE [@ EXCEPT !.pc = "success", !.password = None,
                              !.hashes = 1, !.user = r.user]]
    /\ hist' = IF login'[l].pc = "failure" /\ login'[l].hashes = 1
               THEN HistVerified(hist, LimKey(l))
               ELSE hist
    /\ UNCHANGED <<users, limiter, now>>
    /\ LoginFrame

\* LoginWithIP: users.GetByUsername and, if it found the user,
\* VerifyPassword.
LoginLookup(l) ==
    /\ login[l].pc = "lookup"
    /\ \E fail \in BOOLEAN :
         LET r == IF fail THEN [user |-> NoUser, err |-> "backend"]
                  ELSE GetByUsername(users, login[l].username)
         IN login' = [login EXCEPT ![l] =
               IF r.err # "ok"
               THEN [@ EXCEPT !.pc = "failure", !.password = None,
                              !.lookup = r.err]
               ELSE IF ~VerifyPassword(login[l].password, r.user.saltAuth,
                                       r.user.pwdHash)
               THEN [@ EXCEPT !.pc = "failure", !.password = None,
                              !.hashes = 1]
               ELSE [@ EXCEPT !.pc = "success", !.password = None,
                              !.hashes = 1, !.user = r.user]]
    /\ hist' = IF login'[l].pc = "failure" /\ login'[l].hashes = 1
               THEN HistVerified(hist, LimKey(l))
               ELSE hist
    /\ UNCHANGED <<users, limiter, now>>
    /\ LoginFrame

\* lim.Failure: the upsert that counts the failure.
LoginFailure(l) ==
    /\ login[l].pc = "failure"
    /\ \E fail \in BOOLEAN :
         IF fail
         THEN /\ limiter' = limiter
              /\ hist' = HistBroken(hist, LimKey(l))
              /\ login' = [login EXCEPT ![l] = LoginDone(@, "unauthorized")]
         ELSE /\ limiter' = FailureUpsert(limiter, LimKey(l), now)
              /\ limiter'[LimKey(l)].fails <= MaxFailCount
              /\ IF limiter'[LimKey(l)].fails >= LimMaxFails
                 THEN /\ login' = [login EXCEPT ![l] =
                           [@ EXCEPT !.pc = "block",
                                     !.blockUntil = now + LimBlockFor]]
                      /\ hist' = hist
                 ELSE /\ login' = [login EXCEPT ![l] =
                           LoginDone(@, "unauthorized")]
                      /\ hist' = HistFailure(hist, LimKey(l), now)
    /\ UNCHANGED <<users, now>>
    /\ LoginFrame

\* lim.Failure: the UPDATE that sets blocked_until.
LoginBlock(l) ==
    /\ login[l].pc = "block"
    /\ \E fail \in BOOLEAN :
         IF fail
         THEN /\ limiter' = limiter
              /\ hist' = HistBroken(hist, LimKey(l))
              /\ login' = [login EXCEPT ![l] = LoginDone(@, "unauthorized")]
         ELSE /\ limiter' = FailureBlock(limiter, LimKey(l), login[l].blockUntil)
              /\ hist' = HistFailure(hist, LimKey(l),
                                     login[l].blockUntil - LimBlockFor)
              /\ login' = [login EXCEPT ![l] = LoginDone(@, "ratelimited")]
    /\ UNCHANGED <<users, now>>
    /\ LoginFrame

\* A login that fails when lim.Success fails.
LoginSuccessStrict(l) ==
    /\ login[l].pc = "success"
    /\ \E fail \in BOOLEAN :
         IF fail
         THEN /\ limiter' = limiter
              /\ hist' = HistBroken(hist, LimKey(l))
              /\ login' = [login EXCEPT ![l] = LoginDone(@, "backend")]
         ELSE /\ limiter' = Success(limiter, LimKey(l), now)
              /\ hist' = HistSuccess(hist, LimKey(l))
              /\ login' = [login EXCEPT ![l] =
                   [@ EXCEPT !.pc = "done", !.err = "ok", !.hashes = 0,
                             !.token = IssueAccessToken(login[l].user.id, now)]]
    /\ UNCHANGED <<users, now>>
    /\ LoginFrame

\* lim.Success (its error is dropped) and issueAccessToken.
LoginSuccess(l) ==
    /\ login[l].pc = "success"
    /\ \E fail \in BOOLEAN :
         IF fail
         THEN /\ limiter' = limiter
              /\ hist' = HistBroken(hist, LimKey(l))
         ELSE /\ limiter' = Success(limiter, LimKey(l), now)
              /\ hist' = HistSuccess(hist, LimKey(l))
    /\ login' = [login EXCEPT ![l] =
                   [@ EXCEPT !.pc = "done", !.err = "ok", !.hashes = 0,
                             !.token = IssueAccessToken(login[l].user.id, now)]]
    /\ UNCHANGED <<users, now>>
    /\ LoginFrame

\* The status code of an error of LoginWithIP.
LoginCode(err) ==
    IF err = "ok" THEN "OK"
    ELSE IF err = "unauthorized" THEN "Unauthenticated"
    ELSE IF err = "ratelimited" THEN "ResourceExhausted"
    ELSE "Internal"

\* Server.Login takes the result of LoginWithIP and answers: the error as a
\* status code, or the access token and the user's id.
LoginReturn(l) ==
    /\ login[l].pc = "done"
    /\ login' = [login EXCEPT ![l] = IdleLogin]
    /\ rpc' = [NoRpc EXCEPT
                 !.op = "Login", !.req = <<login[l].username>>,
                 !.code = LoginCode(login[l].err),
                 !.user = login[l].user.id, !.err = login[l].err,
                 !.calls = <<"AuthService.LoginWithIP">>,
                 !.token = login[l].token]
    /\ UNCHANGED <<users, limiter, now, hist>>
    /\ LoginOthers

\* A login that starts while no other login is in flight.
LoginBeginAlone(l) ==
    /\ \A o \in Logins : login[o].pc = "idle"
    /\ LoginBegin(l)

\* A call of PG.Allow on key k.
DoAllow(k) ==
    /\ \E fail \in BOOLEAN :
         LET a == Allow(limiter, k, now)
         IN limResp' = IF fail
                       THEN [NoLimResp EXCEPT !.op = "Allow", !.key = k,
                                              !.err = "backend"]
                       ELSE [op |-> "Allow", key |-> k,
                             allowed |-> a.allowed,
                             retryAfter |-> a.retryAfter, err |-> "ok"]
    /\ authResp' = NoAuthResp
    /\ rpc' = NoRpc
    /\ UNCHANGED <<users, limiter, now, login, hist>>
    /\ AuthOthers

\* Time passes.
Tick ==
    /\ now < MaxNow
    /\ now' = now + 1
    /\ UNCHANGED <<users, limiter, login, hist>>
    /\ LoginFrame

\* Time passes, in the login specifications.
LoginTick ==
    /\ now < LimHorizon
    /\ now' = now + 1
    /\ UNCHANGED <<users, limiter, login, hist>>
    /\ LoginFrame

\* ----------------------------------------------------------- item service
\* What a service method returns, with the methods that ran.
Svc(st, out, err, calls) ==
    [store |-> st, out |-> out, err |-> err, calls |-> calls]

\* Checks that let an empty blob_enc through.
ValidIntentAnyBlob(up) == up.id # None /\ up.base >= 0

\* The checks of ItemServiceImpl.Upsert on one intent.
ValidIntent(up) == up.id # None /\ up.base >= 0 /\ up.blob # Empty

\* ItemServiceImpl.Upsert up to its last statement; max_batch is MaxBatch.
\* The error of its checks, "ok" for the empty batch that it answers itself,
\* or "repo": it goes on to `return s.repo.UpsertBatch(ctx, userID, ups)`.
ItemUpsert(u, ups) ==
    IF u = None THEN "validation"
    ELSE IF ups = <<>> THEN "ok"
    ELSE IF Len(ups) > MaxBatch THEN "validation"
    ELSE IF \E k \in 1 .. Len(ups) : ~ValidIntent(ups[k]) THEN "validation"
    ELSE "repo"

\* ItemServiceImpl.Delete up to `return s.repo.Delete(...)`.
ItemDelete(u, i, baseVer) ==
    IF u = None \/ i = None THEN "validation"
    ELSE IF baseVer < 0 THEN "validation"
    ELSE "repo"

\* ItemServiceImpl.GetChanges; ch is the result set that the query gives.
ItemGetChanges(st, u, sinceVer, fail, ch) ==
    IF u = None \/ sinceVer < 0
    THEN Svc(st, <<>>, "validation", <<"ItemService.GetChanges">>)
    ELSE IF fail # "none"
    THEN Svc(st, <<>>, "backend",
             <<"ItemService.GetChanges", "ItemRepo.GetChangesSince">>)
    ELSE Svc(st, ch, "ok",
             <<"ItemService.GetChanges", "ItemRepo.GetChangesSince">>)

\* ItemServiceImpl.GetOne
ItemGetOne(st, u, i, fail) ==
    IF u = None \/ i = None
    THEN Svc(st, <<>>, "validation", <<"ItemService.GetOne">>)
    ELSE IF fail # "none"
    THEN Svc(st, <<>>, "backend", <<"ItemService.GetOne", "ItemRepo.GetItem">>)
    ELSE LET r == GetItem(st, u, i)
         IN Svc(st, IF r.err = "ok" THEN <<r.item>> ELSE <<>>, r.err,
                <<"ItemService.GetOne", "ItemRepo.GetItem">>)

\* -------------------------------------------------------------- RPC layer
\* pb.UpsertItem: the id as text, base_ver and the ciphertext.
PbUpsertItem(idText, bv, b) == [id |-> idText, base |-> bv, blob |-> b]

\* convert.FromProtoUpsertItems: the ids are parsed, base_ver and the
\* ciphertext are copied (an empty ciphertext becomes nil).
FromProtoUpsertItems(req) ==
    IF \E k \in 1 .. Len(req) : FromString(req[k].id).err # "ok"
    THEN [ups |-> <<>>, err |-> "invalid id"]
    ELSE [ups |-> [k \in 1 .. Len(req) |->
                     UpsertItem(FromString(req[k].id).id, req[k].base,
                                req[k].blob)],
          err |-> "ok"]

\* The status code of a service error: version-conflict on UpsertItems
\* and SetWrappedDEK, ...
ConflictCode(err) ==
    IF err = "ok" THEN "OK"
    ELSE IF err = "conflict" THEN "FailedPrecondition"
    ELSE "Internal"

\* ... with the version conflict of DeleteItem reported as internal, ...
DeleteCodeNoConflict(err) ==
    IF err = "ok" THEN "OK"
    ELSE IF err = "notfound" THEN "NotFound"
    ELSE "Internal"

\* ... on DeleteItem, ...
DeleteCode(err) ==
    IF err = "ok" THEN "OK"
    ELSE IF err = "conflict" THEN "FailedPrecondition"
    ELSE IF err = "notfound" THEN "NotFound"
    ELSE "Internal"

\* ... on GetItem, ...
GetItemCode(err) ==
    IF err = "ok" THEN "OK"
    ELSE IF err = "notfound" THEN "NotFound"
    ELSE "Internal"

\* ... and on GetChanges.
GetChangesCode(err) == IF err = "ok" THEN "OK" ELSE "Internal"

\* The answer to a request that the handler turned away before it called
\* the service.
Refused(op, md, req, code) ==
    [NoRpc EXCEPT !.op = op, !.md = md, !.req = req, !.code = code]

\* The answer after the service has been called for user u and returned r;
\* results are carried only by an answer without error.
Answered(op, md, req, code, u, r) ==
    [NoRpc EXCEPT !.op = op, !.md = md, !.req = req, !.code = code,
                  !.user = u, !.err = r.err, !.calls = r.calls,
                  !.out = IF r.err = "ok" THEN r.out ELSE <<>>]

\* The repository call that a handler makes through the service: BeginTx
\* has run, the loop has the intents ups before it.
Opened(kind, u, ups, op, md, req) ==
    [IdleTx EXCEPT !.pc = "sel", !.kind = kind, !.user = u, !.left = Len(ups),
                   !.batch = ups, !.call = <<op, md, req>>]

\* The handler answers without a call of the repository.
Direct(answer) == [rpc |-> answer, tx |-> IdleTx]

\* Server.UpsertItems at instant t, up to the repository: the answer of a
\* request that the handler or the service turns away, else the call of
\* ItemRepo.UpsertBatch that the handler waits for.
UpsertItemsRpc(md, req, t) ==
    LET a == UserIDFromCtx(md, t)
        c == FromProtoUpsertItems(req)
        v == ItemUpsert(a.id, c.ups)
    IN IF a.err # "ok"
       THEN Direct(Refused("UpsertItems", md, req, "Unauthenticated"))
       ELSE IF c.err # "ok"
       THEN Direct(Refused("UpsertItems", md, req, "InvalidArgument"))
       ELSE IF v # "repo"
       THEN Direct(Answered("UpsertItems", md, req, ConflictCode(v), a.id,
                            [err |-> v, out |-> <<>>,
                             calls |-> <<"ItemService.Upsert">>]))
       ELSE [rpc |-> NoRpc,
             tx |-> Opened("upsert", a.id, c.ups, "UpsertItems", md, req)]

\* Server.GetChanges
GetChangesRpc(st, md, sinceVer, t, fail, ch) ==
    LET a == UserIDFromCtx(md, t)
        r == ItemGetChanges(st, a.id, sinceVer, fail, ch)
    IN IF a.err # "ok"
       THEN [store |-> st,
             rpc |-> Refused("GetChanges", md, <<sinceVer>>,
                             "Unauthenticated")]
       ELSE [store |-> st,
             rpc |-> Answered("GetChanges", md, <<sinceVer>>,
                              GetChangesCode(r.err), a.id, r)]

\* Server.GetItem
GetItemRpc(st, md, idText, t, fail) ==
    LET a == UserIDFromCtx(md, t)
        i == FromString(idText)
        r == ItemGetOne(st, a.id, i.id, fail)
    IN IF a.err # "ok"
       THEN [store |-> st,
             rpc |-> Refused("GetItem", md, <<idText>>, "Unauthenticated")]
       ELSE IF i.err # "ok"
       THEN [store |-> st,
             rpc |-> Refused("GetItem", md, <<idText>>, "InvalidArgument")]
       ELSE [store |-> st,
             rpc |-> Answered("GetItem", md, <<idText>>, GetItemCode(r.err),
                              a.id, r)]

\* Server.DeleteItem, up to the repository.
DeleteItemRpc(md, idText, baseVer, t) ==
    LET a == UserIDFromCtx(md, t)
        i == FromString(idText)
        v == ItemDelete(a.id, i.id, baseVer)
        req == <<idText, baseVer>>
    IN IF a.err # "ok"
       THEN Direct(Refused("DeleteItem", md, req, "Unauthenticated"))
       ELSE IF i.err # "ok"
       THEN Direct(Refused("DeleteItem", md, req, "InvalidArgument"))
       ELSE IF v # "repo"
       THEN Direct(Answered("DeleteItem", md, req, DeleteCode(v), a.id,
                            [err |-> v, out |-> <<>>,
                             calls |-> <<"ItemService.Delete">>]))
       ELSE [rpc |-> NoRpc,
             tx |-> Opened("delete", a.id, <<UpsertItem(i.id, baseVer, None)>>,
                           "DeleteItem", md, req)]

\* The rest of Server.UpsertItems and Server.DeleteItem: the status code of
\* the error that the repository call returned, or its results.
HandlerReturn(rec) ==
    LET op == rec.call[1]
        r  == [err |-> rec.err, out |-> rec.results,
               calls |-> IF op = "UpsertItems"
                         THEN <<"ItemService.Upsert", "ItemRepo.UpsertBatch">>
                         ELSE <<"ItemService.Delete", "ItemRepo.Delete">>]
    IN Answered(op, rec.call[2], rec.call[3],
                IF op = "UpsertItems" THEN ConflictCode(rec.err)
                ELSE DeleteCode(rec.err),
                rec.user, r)

\* Server.SetWrappedDEK: the users table and the answer.
SetWrappedDEKRpc(us, md, wrapped, t, fail) ==
    LET a == UserIDFromCtx(md, t)
        r == IF fail # "none" /\ a.id # None
             THEN [users |-> us, err |-> "backend"]
             ELSE SetWrappedDEK(us, a.id, wrapped)
        calls == IF r.err = "validation" THEN <<"AuthService.SetWrappedDEK">>
                 ELSE <<"AuthService.SetWrappedDEK",
                        "UserRepo.SetWrappedDEKIfEmpty">>
    IN IF a.err # "ok"
       THEN [users |-> us,
             rpc |-> Refused("SetWrappedDEK", md, <<wrapped>>,
                             "Unauthenticated")]
       ELSE IF wrapped = Empty
       THEN [users |-> us,
             rpc |-> Refused("SetWrappedDEK", md, <<wrapped>>,
                             "InvalidArgument")]
       ELSE [users |-> r.users,
             rpc |-> Answered("SetWrappedDEK", md, <<wrapped>>,
                              ConflictCode(r.err), a.id,
                              [err |-> r.err, calls |-> calls,
                               out |-> <<>>])]

\* The metadata that clients send.  A well-formed token is valid from the
\* start to beyond the last instant of the clock unless said otherwise.
FarDate    == LimHorizon + 1
TokenDates == {NoDate} \cup (1 .. FarDate)
GoodToken(u) == Jwt("HS256", SignKey, UUIDString(u), 1, NoDate, FarDate)

CraftedMDs ==
    {NoMD, MD("Basic", GoodToken("A")), MD("bearer", GoodToken("A")),
     Bearer(Garbage)}
    \cup {Bearer(Jwt(alg, key, sub, 1, NoDate, FarDate)) :
            alg \in {"HS256", "HS384"}, key \in {SignKey, OtherKey},
            sub \in {UUIDString("A"), UUIDString("B"), UUIDUrn("A"),
                     UUIDString(None), NotUUID}}
    \cup {Bearer(Jwt("HS256", SignKey, UUIDString("A"), 1, nbf, exp)) :
            nbf \in TokenDates, exp \in TokenDates}

\* Metadata with a valid token: of user A, of user B, and of the zero UUID.
TrustedMDs ==
    {Bearer(GoodToken("A")), Bearer(GoodToken("B")), Bearer(GoodToken(None))}

\* The bodies of the requests: for UpsertItems, batches of up to
\* MaxBatch + 1 intents on item X, well formed or not.
PbIntents ==
    {PbUpsertItem(UUIDString("X"), 0, "e1"),
     PbUpsertItem(UUIDString("X"), 1, "e2"),
     PbUpsertItem(UUIDString(None), 0, "e1"),
     PbUpsertItem(UUIDString("X"), -1, "e1"),
     PbUpsertItem(UUIDString("X"), 0, Empty),
     PbUpsertItem(NotUUID, 0, "e1")}
Batches == UNION {[1 .. n -> PbIntents] : n \in 0 .. (MaxBatch + 1)}
PlainBatches ==
    {<<PbUpsertItem(UUIDString("X"), 0, "e1")>>,
     <<PbUpsertItem(UUIDString("X"), 1, "e2")>>}
IdTexts == {UUIDString("X"), UUIDUrn("X"), UUIDString(None), NotUUID}
ReqVers == -1 .. 1

\* The requests of the RPC specification: every metadata with a plain body,
\* and every body with trusted metadata.
UpsertCalls == (CraftedMDs \X PlainBatches) \cup (TrustedMDs \X Batches)
GetChangesCalls == (CraftedMDs \X {0}) \cup (TrustedMDs \X ReqVers)
GetItemCalls == (CraftedMDs \X {UUIDString("X")}) \cup (TrustedMDs \X IdTexts)
DeleteCalls ==
    (CraftedMDs \X {UUIDString("X")} \X {1})
    \cup (TrustedMDs \X IdTexts \X ReqVers)
SetDEKCalls == (CraftedMDs \X {"d1"}) \cup (TrustedMDs \X {"d1", Empty})

\* Well-formed requests of the two users: single intents on X, and batches
\* that create X and Y in either order.
PlainMDs == {Bearer(GoodToken("A")), Bearer(GoodToken("B"))}
CrossBatches ==
    {<<PbUpsertItem(UUIDString("X"), 0, "e1"),
       PbUpsertItem(UUIDString("Y"), 0, "e1")>>,
     <<PbUpsertItem(UUIDString("Y"), 0, "e1"),
       PbUpsertItem(UUIDString("X"), 0, "e1")>>}
PlainUpserts == PlainMDs \X (PlainBatches \cup CrossBatches)
PlainDeletes == PlainMDs \X {UUIDString("X")} \X {1}

\* What the backend may refuse during a read.
Fails == {"none", "backend"}

\* What a step of a handler leaves alone.
RpcOthers ==
    UNCHANGED <<store, lock, resp, seen, since, synced, limiter, now, login,
                authResp, limResp, hist, box, log>>

\* Goroutine t of the server takes a request: it answers at once (h.rpc) or
\* opens the repository call h.tx and waits for it.
Serve(t, h) ==
    /\ tx[t].pc = "idle"
    /\ tx' = [tx EXCEPT ![t] = h.tx]
    /\ rpc' = Keep(h.rpc)

\* An UpsertItems request arrives.
RpcUpsertItems(t, md, req) ==
    /\ Serve(t, UpsertItemsRpc(md, req, now))
    /\ users' = users
    /\ RpcOthers

\* A GetChanges request is served.
RpcGetChanges(md, sinceVer) ==
    /\ \E fail \in Fails,
          ch \in GetChangesSince(store, UserIDFromCtx(md, now).id,
                                 sinceVer) :
         rpc' = Keep(GetChangesRpc(store, md, sinceVer, now, fail, ch).rpc)
    /\ UNCHANGED <<tx, users>>
    /\ RpcOthers

\* A GetItem request is served.
RpcGetItem(md, idText) ==
    /\ \E fail \in Fails :
         rpc' = Keep(GetItemRpc(store, md, idText, now, fail).rpc)
    /\ UNCHANGED <<tx, users>>
    /\ RpcOthers

\* A DeleteItem request arrives.
RpcDeleteItem(t, md, idText, baseVer) ==
    /\ Serve(t, DeleteItemRpc(md, idText, baseVer, now))
    /\ users' = users
    /\ RpcOthers

\* The repository call of goroutine t has returned: the handler answers.
Answer(t) ==
    /\ tx[t].pc = "done"
    /\ tx[t].call # <<>>
    /\ rpc' = Keep(HandlerReturn(tx[t]))
    /\ tx' = [tx EXCEPT ![t] = IdleTx]

\* ... with what it leaves alone.
RpcAnswer(t) ==
    /\ Answer(t)
    /\ users' = users
    /\ RpcOthers

\* A SetWrappedDEK request is served.
RpcSetWrappedDEK(md, wrapped) ==
    /\ \E fail \in Fails :
         LET r == SetWrappedDEKRpc(users, md, wrapped, now, fail)
         IN /\ users' = r.users
            /\ rpc' = Keep(r.rpc)
    /\ tx' = tx
    /\ RpcOthers

\* The client has read the answer.
RpcDone ==
    /\ rpc # NoRpc
    /\ rpc' = NoRpc
    /\ UNCHANGED <<tx, users>>
    /\ RpcOthers

\* Time passes while the client holds the answer.
RpcTick ==
    /\ now < LimHorizon
    /\ now' = now + 1
    /\ UNCHANGED <<itemVars, resp, clientVars, users, limiter, login,
                   authResp, limResp, hist, rpc, box, log>>

\* ------------------------------------------------------------ CLI client
\* The client of user A working on item X: []byte(userID) and []byte(*id),
\* the DEK it holds, and the token of its login.
CliUser   == "A"
CliItem   == "X"
UserBytes == <<1>>
ItemBytes == <<2>>
CliDek    == "d1"
CliMD     == Bearer(GoodToken(CliUser))
CliPlains == {"p1"}

\* clientcrypto.DeriveItemKey: HKDF-SHA256 of the DEK with the item id as
\* info; the key of item X under the client's DEK, another key otherwise.
DeriveItemKey(dek, itemID) ==
    IF dek = CliDek /\ itemID = ItemBytes THEN "k1" ELSE "k2"

\* A client that seals with the ver it read.
EditVerStale(base) == base

\* `ver := *base + 1` of edit and of the add-* commands.
EditVer(base) == base + 1

\* The byte strings that the server holds are names; box tells which sealed
\* blob each of them is (ShortBlob: none).  There is a name for the stored
\* row and for each of two requests in flight.
CliNames == <<"e1", "e2", "e3">>
CliBlobs == {CliNames[k] : k \in DOMAIN CliNames}
NoBytes == [e \in CliBlobs |-> ShortBlob]

\* The byte string is in the table st, or in a request that is being served
\* among the calls txs.
Referenced(e, st, txs) ==
    \/ \E i \in Items : st[i] # NoRow /\ st[i].blob = e
    \/ \E t \in Tx :
          /\ txs[t].pc \notin {"idle", "done"}
          /\ \/ txs[t].up.blob = e
             \/ \E k \in DOMAIN txs[t].batch : txs[t].batch[k].blob = e
             \/ \E i \in Items : txs[t].wset[i].blob = e

\* The byte strings that nothing refers to any more are forgotten.
Held(bx, st, txs) ==
    [e \in CliBlobs |-> IF Referenced(e, st, txs) THEN bx[e] ELSE ShortBlob]

\* The name of the byte string that a command sends: the first that nothing
\* refers to.
FreshName ==
    CliNames[CHOOSE k \in DOMAIN CliNames :
               /\ ~Referenced(CliNames[k], store, tx)
               /\ \A j \in 1 .. (k - 1) : Referenced(CliNames[j], store, tx)]

\* What a command leaves alone.
CliOthers ==
    UNCHANGED <<store, lock, seen, since, synced, users, limiter, now, login,
                authResp, limResp, hist, log>>

\* encryptForItem / the sealing of add and edit, then UpsertItems with one
\* intent: the blob sealed for ver goes out with base_ver base, and the
\* command waits for the answer.
CliUpsert(t, base, ver, plain) ==
    \E nonce \in Nonces :
       LET key == DeriveItemKey(CliDek, ItemBytes)
           c   == EncryptBlob(key, UserBytes, ItemBytes, ver, plain, nonce)
           e   == FreshName
       IN /\ c.err = "ok"
          /\ Serve(t, UpsertItemsRpc(
                         CliMD, <<PbUpsertItem(UUIDString(CliItem), base, e)>>,
                         now))
          /\ box' = [Held(box, store, tx) EXCEPT ![e] = c.blob]
          /\ resp' = NoResp
          /\ CliOthers

\* add: base_ver 0, sealed for ver 1.
CliAdd(t) == \E plain \in CliPlains : CliUpsert(t, 0, 1, plain)

\* edit -base, add-login -base, ...: sealed for base + 1.
CliEdit(t) ==
    \E base \in BaseVers, plain \in CliPlains :
       CliUpsert(t, base, EditVer(base), plain)

\* rm -base: DeleteItem, and the command waits for the answer.
CliRm(t) ==
    \E base \in BaseVers :
       /\ Serve(t, DeleteItemRpc(CliMD, UUIDString(CliItem), base, now))
       /\ box' = Held(box, store, tx)
       /\ resp' = NoResp
       /\ CliOthers

\* The command of device t gets the answer of the server.
CliAnswer(t) ==
    /\ Answer(t)
    /\ box' = Held(box, store, tx')
    /\ resp' = NoResp
    /\ CliOthers

\* get / show: GetItem, then unless the item is deleted DecryptBlob with the
\* ver of the answer.
CliShow ==
    \E fail \in Fails :
       LET r   == GetItemRpc(store, CliMD, UUIDString(CliItem), now, fail).rpc
           key == DeriveItemKey(CliDek, ItemBytes)
       IN /\ rpc' = r
          /\ resp' =
               IF r.code # "OK"
               THEN [NoResp EXCEPT !.op = "show", !.user = CliUser,
                                   !.id = CliItem, !.err = r.err]
               ELSE IF r.out[1].deleted
               THEN [NoResp EXCEPT !.op = "show", !.user = CliUser,
                                   !.id = CliItem, !.item = r.out[1],
                                   !.err = "item is deleted"]
               ELSE [NoResp EXCEPT
                       !.op = "show", !.user = CliUser, !.id = CliItem,
                       !.item = r.out[1],
                       !.err = DecryptBlob(key, UserBytes, ItemBytes,
                                           r.out[1].ver,
                                           box[r.out[1].blob]).err]
          /\ UNCHANGED <<tx, box>>
          /\ CliOthers

\* ------------------------------------------------------------ interceptors
\* info.FullMethod of the calls, the responses of the handlers (None: nil)
\* and their errors: nil, status errors by their code, and an error that is
\* not a status.
Methods   == {"Login", "GetItem"}
Resps     == {None, "r1"}
NilErr    == "nil"
PlainErr  == "boom"
Errs      == {NilErr, PlainErr, "InvalidArgument", "NotFound", "Internal"}
Reasons   == {"oh no", "PanicNilError"}

\* How a handler (or an interceptor) ends: it returns (resp, err), or it
\* panics with a value.
Returned(r, e) == [kind |-> "return", resp |-> r, err |-> e, reason |-> None]
Panicked(v)    == [kind |-> "panic", resp |-> None, err |-> NilErr, reason |-> v]
Outcomes ==
    {Returned(r, e) : r \in Resps, e \in Errs} \cup {Panicked(v) : v \in Reasons}

\* status.Code: OK for nil, the code of a status error, Unknown otherwise.
StatusCode(e) ==
    IF e = NilErr THEN "OK" ELSE IF e = PlainErr THEN "Unknown" ELSE e

\* A record of the logger: level, message and the fields method, code and
\* reason (None: not given); durations, peers and stacks are left out.
LogRecord(level, msg, method, code, reason) ==
    [level |-> level, msg |-> msg, method |-> method, code |-> code,
     reason |-> reason]

\* LoggingUnary around a handler that ends as h: a panic of next passes
\* through the statements after it; otherwise one record is written and
\* (resp, err) is returned as it is.
LoggingUnary(lg, method, h) ==
    IF h.kind = "panic"
    THEN [out |-> h, log |-> lg]
    ELSE [out |-> h,
          log |-> Append(lg, LogRecord("info", "grpc", method,
                                       StatusCode(h.err), None))]

\* An interceptor without the deferred recover.
RecoverNone(lg, method, h) == [out |-> h, log |-> lg]

\* RecoverUnary around a handler that ends as h: the deferred function
\* recovers a panic, logs it and sets err; the named result resp keeps its
\* zero value.
RecoverUnary(lg, method, h) ==
    IF h.kind = "panic"
    THEN [out |-> Returned(None, "Internal"),
          log |-> Append(lg, LogRecord("error", "panic", method, None,
                                       h.reason))]
    ELSE [out |-> h, log |-> lg]

\* grpc.ChainUnaryInterceptor(RecoverUnary, LoggingUnary): the first is the
\* outermost.
ChainUnary(lg, method, h) ==
    LET inner == LoggingUnary(lg, method, h)
    IN RecoverUnary(inner.log, method, inner.out)

\* A unary call is served: req keeps how its handler ended, out how the
\* chain ended.
ServeUnary ==
    /\ Len(log) < MaxLog
    /\ \E method \in Methods, h \in Outcomes :
         LET r == ChainUnary(log, method, h)
         IN /\ log' = r.log
            /\ rpc' = [NoRpc EXCEPT
                         !.op = method, !.req = <<h>>, !.out = <<r.out>>,
                         !.code = IF r.out.kind = "panic" THEN None
                                  ELSE StatusCode(r.out.err)]
    /\ UNCHANGED <<itemVars, resp, clientVars, users, limiter, now, login,
                   authResp, limResp, hist, box>>

\* A step of the blob crypto leaves the server alone.
BoxOthers == UNCHANGED <<itemVars, resp, clientVars, users, limiter, now,
                         login, authResp, limResp, hist, rpc, log>>

\* The arguments that the calls will be given.
BlobInputs ==
    {[NoBox EXCEPT !.op = "input", !.enc = e, !.plain = p, !.dec = d] :
        e \in {BlobArgs(k, u, i, v) :
                 k \in {"k1", ShortKey}, u \in BlobIds, i \in BlobIds,
                 v \in 1 .. 2},
        p \in Plains,
        d \in {BlobArgs(k, u, i, v) :
                 k \in BlobKeys \cup {ShortKey}, u \in BlobIds,
                 i \in BlobIds, v \in 1 .. 2}}

\* A call of EncryptBlob.
DoEncryptBlob ==
    /\ box.op = "input"
    /\ \E nonce \in Nonces :
         LET r == EncryptBlob(box.enc.key, box.enc.user, box.enc.item,
                              box.enc.ver, box.plain, nonce)
         IN box' = [box EXCEPT !.op = "EncryptBlob", !.blob = r.blob,
                               !.encErr = r.err]
    /\ BoxOthers

\* A call of DecryptBlob on the blob that EncryptBlob returned.
DoDecryptBlob ==
    /\ box.op = "EncryptBlob"
    /\ box.encErr = "ok"
    /\ LET r == DecryptBlob(box.dec.key, box.dec.user, box.dec.item,
                            box.dec.ver, box.blob)
       IN box' = [box EXCEPT !.op = "DecryptBlob", !.out = r.out,
                             !.err = r.err]
    /\ BoxOthers

\* A call of DecryptBlob on a blob shorter than a nonce.
DoDecryptShort ==
    /\ box.op = "input"
    /\ LET r == DecryptBlob(box.dec.key, box.dec.user, box.dec.item,
                            box.dec.ver, ShortBlob)
       IN box' = [NoBox EXCEPT !.op = "DecryptBlob", !.dec = box.dec,
                               !.out = r.out, !.err = r.err]
    /\ BoxOthers

\* -------------------------------------------------------- specifications
\* Two concurrent callers.
Next ==
    \E t \in Tx :
        \/ UpsertBatchBegin(t)
        \/ DeleteBegin(t)
        \/ SelectForUpdate(t)
        \/ LockGranted(t)
        \/ ExecUpdate(t)
        \/ ExecInsert(t)
        \/ BackendFail(t)
        \/ DeadlockAbort(t)
        \/ Rollback(t)
        \/ Commit(t)
        \/ CommitFail(t)
        \/ Return(t)

Spec == Init /\ [][Next]_vars

\* The same calls with the scheduling that the code and PostgreSQL give:
\* a statement that can run does run, a statement waiting for a row lock or
\* for the end of a conflicting INSERT gets its turn when the holder ends,
\* the deadlock detector aborts a statement of a wait cycle, and the deferred
\* function ends the transaction.  Failures of the backend may happen or not.
FairCall(t) ==
    /\ WF_vars(SelectForUpdate(t))
    /\ SF_vars(LockGranted(t))
    /\ WF_vars(ExecUpdate(t))
    /\ SF_vars(ExecInsert(t))
    /\ WF_vars(DeadlockAbort(t))
    /\ WF_vars(Rollback(t))
    /\ WF_vars(Commit(t) \/ CommitFail(t))

\* They start on a table that holds X, one update below the highest ver
\* of the model, and not Y.
InitLive ==
    /\ InitStored([i \in Items |-> IF i = "X"
                                   THEN Row("A", MaxVer - 1, FALSE, "e1")
                                   ELSE NoRow])
    /\ box = NoBox

SpecLive == InitLive /\ [][Next]_vars /\ \A t \in Tx : FairCall(t)

\* One caller at a time (any user), with reads between its statements.
NextRead ==
    \/ UpsertBatchBegin(Lone)
    \/ DeleteBegin(Lone)
    \/ SelectForUpdate(Lone)
    \/ ExecUpdate(Lone)
    \/ ExecInsert(Lone)
    \/ BackendFail(Lone)
    \/ Rollback(Lone)
    \/ Commit(Lone)
    \/ CommitFail(Lone)
    \/ Return(Lone)
    \/ \E i \in Items : DoGetItem(Reader, i)
    \/ \E v \in Sinces : DoGetChangesSince(Reader, v)

SpecRead == Init /\ [][NextRead]_vars

\* One writer of user A and the sync client.
NextPoll ==
    \/ UpsertBatchBegin("t1")
    \/ DeleteBegin("t1")
    \/ SelectForUpdate("t1")
    \/ ExecUpdate("t1")
    \/ ExecInsert("t1")
    \/ BackendFail("t1")
    \/ Rollback("t1")
    \/ Commit("t1")
    \/ CommitFail("t1")
    \/ Return("t1")
    \/ Poll

SpecPoll == Init /\ [][NextPoll]_vars

\* The auth service: registrations, SetWrappedDEK calls and one login.
NextAuth ==
    \/ \E name \in Names \cup {Empty}, pw \in Passwords \cup {Empty} :
          DoRegister(name, pw)
    \/ \E id \in Users \cup {None}, w \in Deks \cup {Empty} :
          DoSetWrappedDEK(id, w)
    \/ LoginBegin("l1")
    \/ LoginLookup("l1")
    \/ LoginFailure("l1")
    \/ LoginBlock("l1")
    \/ LoginSuccess("l1")
    \/ LoginReturn("l1")
    \/ Tick

SpecAuth == Init /\ [][NextAuth]_vars

\* Logins of a registered user, one call at a time over three connections,
\* with calls of PG.Allow between their statements.
Alice == User("A", "alice", HashPassword("p1", "s1"), "s1", "s1", Empty)

InitRegistered(us, bx) ==
    /\ users = us
    /\ limiter = [k \in LimKeys |-> NoLim]
    /\ now = 1
    /\ login = [l \in Logins |-> IdleLogin]
    /\ authResp = NoAuthResp
    /\ limResp = NoLimResp
    /\ rpc = NoRpc
    /\ box = bx
    /\ store = EmptyTable
    /\ lock = [i \in Items |-> None]
    /\ tx = [t \in AllTx |-> IdleTx]
    /\ resp = NoResp
    /\ seen = [i \in Items |-> Unknown]
    /\ since = 0
    /\ synced = FALSE
    /\ log = <<>>

InitAlice ==
    InitRegistered([u \in Users |-> IF u = "A" THEN Alice ELSE NoUser], NoBox)

InitLogin ==
    /\ InitAlice
    /\ hist = [k \in LimKeys |-> NoHist]

\* The same with no history kept.
InitSession ==
    /\ InitAlice
    /\ hist = [k \in LimKeys |-> OffHist]

\* The limiter keys of connections.
KeyOf(l) == <<"alice", HashIP(RemoteIP(PeerOf(l)))>>

NextLogin ==
    \/ \E l \in {"l1", "l4"} :
          \/ LoginBeginAlone(l)
          \/ LoginLookup(l)
          \/ LoginFailure(l)
          \/ LoginBlock(l)
          \/ LoginSuccess(l)
          \/ LoginReturn(l)
    \/ DoAllow(KeyOf("l1"))
    \/ LoginTick

SpecLogin == InitLogin /\ [][NextLogin]_vars

\* The same over two connections of one host.
NextConn ==
    \/ \E l \in {"l1", "l3"} :
          \/ LoginBeginAlone(l)
          \/ LoginLookup(l)
          \/ LoginFailure(l)
          \/ LoginBlock(l)
          \/ LoginSuccess(l)
          \/ LoginReturn(l)
    \/ LoginTick

SpecConn == InitLogin /\ [][NextConn]_vars

\* Two concurrent logins of the registered user on one connection.
NextRace ==
    \/ \E l \in {"l1", "l2"} :
          \/ LoginBegin(l)
          \/ LoginLookup(l)
          \/ LoginFailure(l)
          \/ LoginBlock(l)
          \/ LoginSuccess(l)
          \/ LoginReturn(l)
    \/ LoginTick

\* ... with the wrong-password verifications counted.
InitRace ==
    /\ InitAlice
    /\ hist = [k \in LimKeys |-> [NoHist EXCEPT !.v = 0]]

SpecRace == InitRace /\ [][NextRace]_vars

\* The RPC layer: requests of any client, one at a time: a request arrives
\* after the answer to the one before has been given and read.
RpcIdle == rpc = NoRpc /\ tx[Lone].pc = "idle"

CallUpsertItems ==
    RpcIdle /\ \E c \in UpsertCalls : RpcUpsertItems(Lone, c[1], c[2])
CallGetChanges ==
    RpcIdle /\ \E c \in GetChangesCalls : RpcGetChanges(c[1], c[2])
CallGetItem ==
    RpcIdle /\ \E c \in GetItemCalls : RpcGetItem(c[1], c[2])
CallDeleteItem ==
    RpcIdle /\ \E c \in DeleteCalls : RpcDeleteItem(Lone, c[1], c[2], c[3])
CallSetWrappedDEK ==
    RpcIdle /\ \E c \in SetDEKCalls : RpcSetWrappedDEK(c[1], c[2])
CallTick == RpcIdle /\ RpcTick

NextRpc ==
    \/ CallUpsertItems
    \/ CallGetChanges
    \/ CallGetItem
    \/ CallDeleteItem
    \/ CallSetWrappedDEK
    \/ SelectForUpdate(Lone)
    \/ ExecUpdate(Lone)
    \/ ExecInsert(Lone)
    \/ BackendFail(Lone)
    \/ Rollback(Lone)
    \/ Commit(Lone)
    \/ CommitFail(Lone)
    \/ RpcAnswer(Lone)
    \/ RpcDone
    \/ CallTick

\* Both callers hold rows of `users`: items.user_id references users(id), and
\* tokens are issued to registered users only.
Bob == User("B", "bob", HashPassword("p2", "s1"), "s1", "s1", Empty)

InitRpc ==
    /\ InitRegistered([u \in Users |-> IF u = "A" THEN Alice ELSE Bob], NoBox)
    /\ hist = [k \in LimKeys |-> OffHist]

SpecRpc == InitRpc /\ [][NextRpc]_vars

\* Well-formed requests of the two users served concurrently by two
\* goroutines, with reads of user B at any time.
ServeUpsertItems(t) == \E c \in PlainUpserts : RpcUpsertItems(t, c[1], c[2])
ServeDeleteItem(t) ==
    \E c \in PlainDeletes : RpcDeleteItem(t, c[1], c[2], c[3])
ServeGetItem == RpcGetItem(Bearer(GoodToken("B")), UUIDString("X"))
ServeGetChanges == RpcGetChanges(Bearer(GoodToken("B")), 0)

NextServe ==
    \/ \E t \in Tx :
          \/ ServeUpsertItems(t)
          \/ ServeDeleteItem(t)
          \/ SelectForUpdate(t)
          \/ LockGranted(t)
          \/ ExecUpdate(t)
          \/ ExecInsert(t)
          \/ BackendFail(t)
          \/ DeadlockAbort(t)
          \/ Rollback(t)
          \/ Commit(t)
          \/ CommitFail(t)
          \/ RpcAnswer(t)
    \/ ServeGetItem
    \/ ServeGetChanges

SpecServe == InitRpc /\ [][NextServe]_vars

\* A session: logins of alice over one connection, and requests that carry
\* the access token of the last Login answer.
HasToken == rpc.token # NoToken

SessionUpsertItems ==
    HasToken /\ \E req \in PlainBatches :
                   RpcUpsertItems("t1", Bearer(rpc.token), req)
SessionGetChanges == HasToken /\ RpcGetChanges(Bearer(rpc.token), 0)
SessionGetItem == HasToken /\ RpcGetItem(Bearer(rpc.token), UUIDString("X"))
SessionDeleteItem ==
    HasToken /\ \E bv \in 0 .. 1 :
                   RpcDeleteItem("t1", Bearer(rpc.token), UUIDString("X"), bv)
SessionSetWrappedDEK == HasToken /\ RpcSetWrappedDEK(Bearer(rpc.token), "d1")

NextSession ==
    \/ LoginBegin("l1")
    \/ LoginLookup("l1")
    \/ LoginFailure("l1")
    \/ LoginBlock("l1")
    \/ LoginSuccess("l1")
    \/ LoginReturn("l1")
    \/ SessionUpsertItems
    \/ SessionGetChanges
    \/ SessionGetItem
    \/ SessionDeleteItem
    \/ SessionSetWrappedDEK
    \/ SelectForUpdate("t1")
    \/ ExecUpdate("t1")
    \/ ExecInsert("t1")
    \/ BackendFail("t1")
    \/ Rollback("t1")
    \/ Commit("t1")
    \/ CommitFail("t1")
    \/ RpcAnswer("t1")
    \/ RpcTick

SpecSession == InitSession /\ [][NextSession]_vars

\* The commands of the CLI on two devices of user A, on item X, in any
\* order, with the statements of the server between them.
NextCli ==
    \/ \E t \in Tx :
          \/ CliAdd(t)
          \/ CliEdit(t)
          \/ CliRm(t)
          \/ SelectForUpdate(t)
          \/ LockGranted(t)
          \/ ExecUpdate(t)
          \/ ExecInsert(t)
          \/ BackendFail(t)
          \/ Rollback(t)
          \/ Commit(t)
          \/ CommitFail(t)
          \/ CliAnswer(t)
    \/ CliShow

\* The devices have logged in: the first login stored the wrapped DEK with
\* SetWrappedDEK, and both hold the DEK that it wraps.
InitCli ==
    /\ InitRegistered([u \in Users |->
                          IF u = "A" THEN [Alice EXCEPT !.wrapped = CliDek]
                          ELSE Bob],
                      NoBytes)
    /\ hist = [k \in LimKeys |-> OffHist]

SpecCli == InitCli /\ [][NextCli]_vars

\* The calls that go through the interceptors of the server.
NextChain == ServeUnary

SpecChain == Init /\ [][NextChain]_vars

\* The blob crypto: encryptions, and decryptions of what they returned.
NextBlob ==
    \/ DoEncryptBlob
    \/ DoDecryptBlob
    \/ DoDecryptShort

InitBlob ==
    /\ InitServer
    /\ box \in BlobInputs

SpecBlob == InitBlob /\ [][NextBlob]_vars

\* ------------------------------------------------- properties of the store
\* The step in which call t returns success: its transaction commits.
Committing(t) ==
    tx[t].pc = "end" /\ tx'[t].pc = "done" /\ tx'[t].err = "ok"

\* The number of writes of item i among the results res.
Writes(res, i) == Cardinality({k \in DOMAIN res : res[k].id = i})

\* Errors that come from the infrastructure, not from the request.
InfraErrs == {"backend", "deadlock", "commit"}

\* C1: a stored ver never decreases; a row changes only when a call commits,
\* and then each successful intent of the call (or the Delete) has set the
\* ver to the ver stored before it plus one (1 for a created row), so that
\* the row's ver grows by exactly the number of mutations committed.
C1_VerGrowsByOnePerMutation ==
    [][\A i \in Items :
         /\ store'[i].ver >= store[i].ver
         /\ \A t \in AllTx :
              Committing(t) /\ Writes(tx[t].results, i) > 0 =>
                store'[i] # store[i]
         /\ store'[i] # store[i] =>
              \E t \in AllTx :
                 /\ Committing(t)
                 /\ store'[i].ver = store[i].ver + Writes(tx[t].results, i)
                 /\ \A k \in DOMAIN tx[t].results :
                      tx[t].results[k].id = i =>
                        tx[t].results[k].newVer =
                          store[i].ver + Writes(SubSeq(tx[t].results, 1, k), i)
      ]_vars

\* A call has committed an update that took an item from ver 1 to ver 2.
C1_Witness ==
    \E t \in Tx :
       /\ tx[t].pc = "done" /\ tx[t].err = "ok"
       /\ \E k \in DOMAIN tx[t].results :
            /\ tx[t].results[k].newVer = 2
            /\ store[tx[t].results[k].id].ver = 2

\* C2: a step of a call that is not its successful commit leaves the table
\* as it is: the writes of the intents before a failing one (version
\* conflict, backend error) are never persisted, and the rollback of the
\* failed call restores nothing because nothing had been stored.
C2_FailedBatchPersistsNothing ==
    [][\A t \in AllTx :
         /\ (tx'[t] # tx[t] /\ ~Committing(t)) => store' = store
         /\ (tx'[t].pc = "done" /\ tx[t].pc # "done" /\ tx'[t].err # "ok") =>
              /\ store' = store
              /\ tx'[t].wset = EmptyTable
              /\ \A i \in Items : lock'[i] # t
      ]_vars

\* An UpsertBatch has failed with a version conflict at its second intent,
\* after its first intent had written.
C2_Witness ==
    \E t \in Tx :
       /\ tx[t].pc = "done" /\ tx[t].kind = "upsert"
       /\ tx[t].err = "conflict" /\ tx[t].idx = 1

\* C3: of two concurrent single mutations of the same item of the same user
\* with the same base_ver, one commits with ver = base_ver + 1 and the other
\* returns a version conflict; for an existing item, and for two creations
\* (base_ver 0) of an item that had no row.  (A call that found no row to
\* delete, or that failed for an infrastructure error, is not concerned.)
C3_LoserGetsVersionConflict ==
    \A t, o \in Tx :
       ( /\ t # o
         /\ tx[t].pc = "done" /\ tx[o].pc = "done"
         /\ tx[t].err = "ok" /\ Len(tx[t].results) = 1
         /\ tx[o].idx = 0
         /\ tx[o].user = tx[t].user
         /\ tx[o].up.id = tx[t].up.id
         /\ tx[o].up.base = tx[t].up.base
         /\ tx[o].err \notin InfraErrs \cup {"notfound"} )
       => /\ tx[t].results[1].newVer = tx[t].up.base + 1
          /\ tx[o].err = "conflict"

\* C4: when the SELECT of an Upsert intent returns a committed row whose ver
\* differs from the intent's base_ver, the call ends with a version conflict
\* and the table is unchanged: the row keeps its ver, blob_enc and deleted.
\* (The call returns the error at once, and the rollback that follows
\* leaves the error and the table as they are.)
C4_StaleUpsertRejected ==
    [][\A t \in AllTx :
         LET up == tx'[t].up
             i  == up.id
         IN /\ ( /\ tx[t].pc \in {"sel", "wait"}
                 /\ tx'[t].pc \notin {"sel", "wait"}
                 /\ tx'[t].kind = "upsert"
                 /\ tx'[t].err \notin InfraErrs
                 /\ tx[t].wset[i] = NoRow
                 /\ store[i] # NoRow /\ store[i].user = tx[t].user
                 /\ store[i].ver # up.base )
               => /\ tx'[t].pc = "rb"
                  /\ tx'[t].err = "conflict"
                  /\ store' = store
            /\ (tx[t].pc = "rb" /\ tx'[t].pc # "rb")
               => /\ tx'[t].pc = "done"
                  /\ tx'[t].err = tx[t].err
                  /\ tx'[t].results = <<>>
                  /\ store' = store
      ]_vars

\* An Upsert with a stale base_ver has been rejected, and the row holds the
\* newer version written by the other device.
C4_Witness ==
    \E t \in Tx :
       /\ tx[t].pc = "done" /\ tx[t].kind = "upsert"
       /\ tx[t].err = "conflict"
       /\ store[tx[t].up.id] # NoRow
       /\ store[tx[t].up.id].ver > tx[t].up.base
       /\ store[tx[t].up.id].blob # tx[t].up.blob

\* ------------------------------------------------- properties of the reads
\* The positions of the records for item i in a GetChangesSince result.
RecordsOf(out, i) == {k \in DOMAIN out : out[k].id = i}

\* The rows of user u with ver above v.
RowsAbove(u, v) ==
    {i \in Items : store[i] # NoRow /\ store[i].user = u /\ store[i].ver > v}

\* The result holds one record for each row of the user with ver above
\* since_ver, carrying the row's ver and deleted flag, and nothing else.
OneRecordPerRowAbove ==
    \A i \in Items :
       /\ Cardinality(RecordsOf(resp.changes, i)) =
            (IF i \in RowsAbove(resp.user, resp.sinceVer) THEN 1 ELSE 0)
       /\ \A k \in RecordsOf(resp.changes, i) :
            /\ resp.changes[k].ver = store[i].ver
            /\ resp.changes[k].deleted = store[i].deleted

\* C6 as stated: GetChanges(user, V) returns every committed row of the user
\* with ver > V, in strictly ascending ver order (no two records share a ver).
C6_StrictlyAscending ==
    resp.op = "GetChangesSince" =>
       /\ OneRecordPerRowAbove
       /\ \A k \in 1 .. (Len(resp.changes) - 1) :
            resp.changes[k].ver < resp.changes[k + 1].ver

\* C6: GetChanges(user, V) returns exactly the rows of the user whose stored
\* ver is above V, one record per item with the row's current ver and
\* deleted flag, in non-decreasing ver order (records of different items can
\* share a ver).
C6_AscendingWithTies ==
    resp.op = "GetChangesSince" =>
       /\ OneRecordPerRowAbove
       /\ \A k \in 1 .. (Len(resp.changes) - 1) :
            resp.changes[k].ver <= resp.changes[k + 1].ver

\* GetChanges with since_ver >= 1 has returned two records that share a ver.
C6_Witness ==
    /\ resp.op = "GetChangesSince"
    /\ resp.sinceVer >= 1
    /\ Len(resp.changes) = 2
    /\ resp.changes[1].ver = resp.changes[2].ver

\* Item X of the reader after three committed mutations of which the last is
\* a delete (created, edited, deleted), read with since_ver 0.
DeltaSyncScenario ==
    /\ resp.op = "GetChangesSince" /\ resp.sinceVer = 0
    /\ store["X"] # NoRow /\ store["X"].user = resp.user
    /\ store["X"].ver = 3 /\ store["X"].deleted

\* C7 as stated: GetChanges(since=0) returns exactly three records for X,
\* with ver 1, 2 and 3 in ascending order, the ver 3 record without blob_enc.
C7_ThreeRecords ==
    DeltaSyncScenario =>
       LET ks == RecordsOf(resp.changes, "X") IN
       /\ Cardinality(ks) = 3
       /\ {resp.changes[k].ver : k \in ks} = {1, 2, 3}
       /\ \A k \in ks : resp.changes[k].ver = 3 => resp.changes[k].blob = None

\* C7: GetChanges(since=0) returns exactly one record for X, its current
\* state: ver 3, deleted, without blob_enc.
C7_OneRecordOfCurrentState ==
    DeltaSyncScenario =>
       LET ks == RecordsOf(resp.changes, "X") IN
       /\ Cardinality(ks) = 1
       /\ \A k \in ks :
            /\ resp.changes[k].ver = 3
            /\ resp.changes[k].deleted
            /\ resp.changes[k].blob = None

\* The scenario has been read, and the row still stores a ciphertext.
C7_Witness ==
    /\ DeltaSyncScenario
    /\ store["X"].blob \in Blobs

\* The ver a read has observed for item i: 0 when it returned nothing for it.
ObservedVer(i) ==
    IF resp.op = "GetItem"
    THEN (IF resp.id = i THEN resp.item.ver ELSE 0)
    ELSE IF RecordsOf(resp.changes, i) = {} THEN 0
         ELSE resp.changes[CHOOSE k \in RecordsOf(resp.changes, i) : TRUE].ver

\* The ver the results res give item i last: 0 when they do not write it.
LastVer(res, i) ==
    IF RecordsOf(res, i) = {} THEN 0
    ELSE res[CHOOSE k \in RecordsOf(res, i) :
               \A j \in RecordsOf(res, i) : j <= k].newVer

\* C9: a GetItem or GetChanges that runs while an UpsertBatch is in flight
\* observes none of the writes the batch has made so far (whether the batch
\* then commits or rolls back); one that runs after the batch has committed
\* observes every item of the batch at the ver the batch gave it.
C9_NoPartialBatchObserved ==
    LET w == tx[Lone] IN
    resp.op # None =>
       /\ InFlight(Lone) =>
            \A i \in Items :
               w.wset[i] # NoRow => ObservedVer(i) < w.wset[i].ver
       /\ (w.pc = "done" /\ w.err = "ok" /\ w.user = resp.user) =>
            \A i \in Items :
               ( /\ LastVer(w.results, i) > 0
                 /\ resp.op = "GetItem" => resp.id = i
                 /\ resp.op = "GetChangesSince" =>
                      resp.sinceVer < LastVer(w.results, i) )
               => ObservedVer(i) = LastVer(w.results, i)

\* GetChanges has run between the two intents of a batch of the reader: the
\* first intent has updated a committed row, the second is still to come.
C9_Witness ==
    /\ resp.op = "GetChangesSince"
    /\ tx[Lone].kind = "upsert" /\ tx[Lone].user = resp.user
    /\ tx[Lone].pc = "sel" /\ Len(tx[Lone].results) = 1
    /\ \E i \in Items :
         /\ tx[Lone].wset[i] # NoRow
         /\ ObservedVer(i) = tx[Lone].wset[i].ver - 1
         /\ ObservedVer(i) > 0

\* C10: once a Delete of an item has succeeded, GetItem on the id succeeds
\* and returns the row with deleted = true and the incremented ver, and
\* GetChanges with since_ver below that ver holds a record for the item with
\* deleted = true and no blob_enc.
C10_TombstoneVisible ==
    LET w == tx[Lone] IN
    (w.pc = "done" /\ w.kind = "delete" /\ w.err = "ok" /\ w.user = resp.user) =>
       /\ (resp.op = "GetItem" /\ resp.id = w.up.id) =>
            /\ resp.err = "ok"
            /\ resp.item.deleted
            /\ resp.item.ver = w.up.base + 1
       /\ (resp.op = "GetChangesSince" /\ resp.sinceVer < w.up.base + 1) =>
            \E k \in DOMAIN resp.changes :
               /\ resp.changes[k].id = w.up.id
               /\ resp.changes[k].ver = w.up.base + 1
               /\ resp.changes[k].deleted
               /\ resp.changes[k].blob = None

\* GetItem has read an item after the successful Delete of it.
C10_Witness ==
    /\ tx[Lone].pc = "done" /\ tx[Lone].kind = "delete" /\ tx[Lone].err = "ok"
    /\ resp.op = "GetItem" /\ resp.id = tx[Lone].up.id
    /\ resp.user = tx[Lone].user
    /\ resp.item.deleted

\* ------------------------------------------- properties of the sync client
\* C8: a client that polls GetChanges with since_ver = the highest ver it
\* has observed catches up: once the writes have stopped and it has polled
\* once more, it holds the current ver and deleted flag of every item of the
\* user.
C8_PollCatchesUp ==
    synced =>
       \A i \in Items :
          (store[i] # NoRow /\ store[i].user = "A") =>
             seen[i] = [ver |-> store[i].ver, deleted |-> store[i].deleted]

\* ------------------------------------------ properties of the user store
\* C5: for a registered user, a SetWrappedDEK call with a non-empty payload
\* succeeds exactly when the stored wrapped_dek is empty, and stores its
\* payload; every other call returns a version conflict and changes nothing
\* (a call that fails for a backend error apart).  A stored non-empty
\* wrapped_dek never changes again, so it stays the first payload, and a
\* Login that looks the user up returns the wrapped_dek stored at that time.
C5_WrappedDEKSetOnce ==
    [][/\ \A u \in Users :
            (users[u] # NoUser /\ users[u].wrapped # Empty) =>
               users'[u] = users[u]
       /\ LET r == authResp' IN
          ( /\ r.op = "SetWrappedDEK" /\ r.err # "backend"
            /\ r.payload # Empty
            /\ r.id \in Users /\ users[r.id] # NoUser )
          => IF users[r.id].wrapped = Empty
             THEN r.err = "ok" /\ users'[r.id].wrapped = r.payload
             ELSE r.err = "conflict" /\ users' = users
       /\ \A l \in Logins :
            /\ (login[l].pc = "lookup" /\ login'[l].pc = "success") =>
                 \E u \in Users :
                    /\ users[u] # NoUser
                    /\ users[u].username = login[l].username
                    /\ login'[l].user = users[u]
            /\ (login[l].pc = "success" /\ login'[l].pc = "done") =>
                 /\ login'[l].err = "ok"
                 /\ login'[l].user = login[l].user
      ]_vars

\* A second SetWrappedDEK with another payload has been refused: the user
\* keeps the first payload.
C5_Witness ==
    /\ authResp.op = "SetWrappedDEK" /\ authResp.err = "conflict"
    /\ authResp.id \in Users
    /\ users[authResp.id] # NoUser
    /\ authResp.payload \in Deks
    /\ users[authResp.id].wrapped \in Deks \ {authResp.payload}

\* ------------------------------------------- properties of Delete / create
\* The SELECT of call t has run in this step and returned (a row or none).
Selected(t) ==
    /\ tx[t].pc \in {"sel", "wait"}
    /\ tx'[t].pc \notin {"sel", "wait"}
    /\ tx'[t].err \notin InfraErrs

\* The user of call t has a committed row for item i.
HasRow(t, i) == store[i] # NoRow /\ store[i].user = tx'[t].user

\* C11: Delete(user, item, base_ver) on an absent row returns not-found, on
\* a row whose ver differs from base_ver returns version-conflict, both with
\* the table unchanged; otherwise its commit sets deleted = true and ver =
\* current + 1 on the row and changes nothing else, whether the row was live
\* or already a tombstone.  (A failing call returns its error at the SELECT;
\* the rollback that follows keeps the error and the table.)
C11_DeleteOutcomes ==
    [][LET d == tx'[Lone]
           i == d.up.id
       IN /\ (Selected(Lone) /\ d.kind = "delete") =>
               IF ~HasRow(Lone, i)
               THEN d.pc = "rb" /\ d.err = "notfound" /\ store' = store
               ELSE IF store[i].ver # d.up.base
               THEN d.pc = "rb" /\ d.err = "conflict" /\ store' = store
               ELSE d.pc = "upd"
          /\ (tx[Lone].pc = "rb" /\ d.pc # "rb") =>
               d.pc = "done" /\ d.err = tx[Lone].err /\ store' = store
          /\ (Committing(Lone) /\ d.kind = "delete") =>
               /\ store' = [store EXCEPT ![i].deleted = TRUE,
                                         ![i].ver = store[i].ver + 1]
               /\ d.results = <<ItemVersion(i, store[i].ver + 1)>>
      ]_vars

\* A Delete of a row that is already a tombstone has passed the version
\* check and written the next ver.
C11_Witness ==
    /\ tx[Lone].pc = "end" /\ tx[Lone].kind = "delete"
    /\ store[tx[Lone].up.id].deleted
    /\ tx[Lone].wset[tx[Lone].up.id].deleted
    /\ tx[Lone].wset[tx[Lone].up.id].ver = store[tx[Lone].up.id].ver + 1

\* C12: the commit of a Delete leaves blob_enc (and the owner) of the row as
\* they were, the last upserted ciphertext, and GetItem on a tombstone
\* returns the row with that ciphertext.
C12_DeleteKeepsBlob ==
    [][/\ (Committing(Lone) /\ tx[Lone].kind = "delete") =>
            LET i == tx[Lone].up.id IN
            /\ store'[i].blob = store[i].blob
            /\ store'[i].blob \in Blobs
            /\ store'[i].user = store[i].user
       /\ ( /\ resp'.op = "GetItem"
            /\ store[resp'.id] # NoRow
            /\ store[resp'.id].user = resp'.user
            /\ store[resp'.id].deleted )
          => /\ resp'.err = "ok"
             /\ resp'.item.deleted
             /\ resp'.item.blob = store[resp'.id].blob
             /\ resp'.item.blob \in Blobs
      ]_vars

\* GetItem has returned a tombstone of ver >= 2 together with its ciphertext.
C12_Witness ==
    /\ resp.op = "GetItem" /\ resp.err = "ok"
    /\ resp.item.deleted /\ resp.item.ver >= 2
    /\ resp.item.blob \in Blobs

\* C13: every stored row has ver >= 1.  An Upsert intent for an item of
\* which the user has no row goes on to the INSERT only with base_ver = 0,
\* and the INSERT creates the row with ver = 1; with any other base_ver the
\* call ends with a version conflict and nothing is created (the call
\* returns the error at the SELECT, and its rollback keeps error and table).
C13_CreateOnlyFromZero ==
    [][LET c == tx'[Lone]
           i == c.up.id
       IN /\ \A j \in Items : store'[j] # NoRow => store'[j].ver >= 1
          /\ ( /\ Selected(Lone) /\ c.kind = "upsert"
               /\ ~HasRow(Lone, i) /\ tx[Lone].wset[i] = NoRow ) =>
               IF c.up.base = 0
               THEN c.pc = "ins"
               ELSE c.pc = "rb" /\ c.err = "conflict" /\ store' = store
          /\ (tx[Lone].pc = "rb" /\ c.pc # "rb") =>
               c.pc = "done" /\ c.err = tx[Lone].err /\ store' = store
          /\ (tx[Lone].pc = "ins" /\ c.pc \notin {"ins", "done"}) =>
               /\ c.wset[i] = Row(c.user, 1, FALSE, c.up.blob)
               /\ c.results[Len(c.results)] = ItemVersion(i, 1)
          /\ \A j \in Items :
               (store[j] = NoRow /\ store'[j] # NoRow) =>
                  /\ Committing(Lone)
                  /\ \E k \in DOMAIN c.results : c.results[k] = ItemVersion(j, 1)
      ]_vars

\* An Upsert with base_ver >= 1 for an item that has no row has been
\* refused, and the item still has no row.
C13_Witness ==
    /\ tx[Lone].pc = "done" /\ tx[Lone].kind = "upsert"
    /\ tx[Lone].err = "conflict"
    /\ tx[Lone].up.base >= 1
    /\ store[tx[Lone].up.id] = NoRow
\* ------------------------------------------- properties of the limiter
\* C14: a PG.Allow on a record whose statements have all succeeded returns
\* true (with retry_after 0) while fewer than max_fails Failure calls have
\* completed since the record was absent or reset; after exactly max_fails
\* Failure calls that lie within window of each other it returns false with
\* 0 < retry_after <= block_for until block_for has elapsed since the
\* blocking Failure, and true from then on.
C14_AllowBoundary ==
    LET k == limResp.key
        h == hist[k]
    IN (limResp.op = "Allow" /\ limResp.err = "ok" /\ h.clean) =>
         /\ h.n < LimMaxFails =>
              limResp.allowed /\ limResp.retryAfter = 0
         /\ (h.n = LimMaxFails /\ h.last - h.first <= LimWindow) =>
              IF now - h.last < LimBlockFor
              THEN /\ ~limResp.allowed
                   /\ 0 < limResp.retryAfter
                   /\ limResp.retryAfter <= LimBlockFor
              ELSE limResp.allowed /\ limResp.retryAfter = 0

\* An Allow refused right after max_fails failures.
C14_Witness ==
    /\ limResp.op = "Allow" /\ limResp.err = "ok"
    /\ ~limResp.allowed
    /\ hist[limResp.key].clean
    /\ hist[limResp.key].n = LimMaxFails
    /\ hist[limResp.key].last - hist[limResp.key].first <= LimWindow

\* The block that max_fails failures within window have set on record k
\* still lasts.
BlockLasts(k) ==
    /\ hist[k].clean
    /\ hist[k].n = LimMaxFails
    /\ hist[k].last - hist[k].first <= LimWindow
    /\ now - hist[k].last < LimBlockFor

\* C15: of the logins for a pair (username, address) that fail since the
\* pair's record was absent or reset, those before the max_fails-th return
\* unauthorized and the max_fails-th, if all lie within window, returns
\* rate-limited; while that block lasts every login for the pair returns
\* rate-limited at once, whatever its password, without looking the user up
\* or hashing; a login from an address whose own record has counted fewer
\* than max_fails failures passes the limiter.
C15_BlockAtNthFailure ==
    [][\A l \in {"l1", "l4"} :
         LET k == KeyOf(l)
             d == login'[l]
         IN /\ (login[l].pc \in {"failure", "block"} /\ d.pc = "done"
                  /\ hist'[k].clean) =>
                 /\ hist'[k].n < LimMaxFails => d.err = "unauthorized"
                 /\ (hist'[k].n = LimMaxFails
                       /\ hist'[k].last - hist'[k].first <= LimWindow) =>
                      d.err = "ratelimited"
            /\ (login[l].pc = "idle" /\ d.pc # "idle" /\ d.err # "backend") =>
                 /\ BlockLasts(k) =>
                      /\ d.pc = "done" /\ d.err = "ratelimited"
                      /\ d.hashes = 0 /\ UNCHANGED <<limiter, hist>>
                 /\ (hist[k].clean /\ hist[k].n < LimMaxFails) =>
                      d.pc = "lookup"
    ]_vars

\* While the pair of l1 is blocked, a login from the other host has
\* succeeded.
C15_Witness ==
    /\ BlockLasts(KeyOf("l1"))
    /\ limiter[KeyOf("l1")].blockedUntil > now
    /\ login["l4"].pc = "done"
    /\ login["l4"].err = "ok"
    /\ login["l4"].token.sub = UUIDString("A")

\* C16: the limiter records that Login has written for one username on
\* behalf of one client host are one record, whatever the connections
\* (source ports) its calls arrived on.
C16_OneRecordPerHost ==
    \A l, m \in Logins :
        (/\ PeerOf(l).ip = PeerOf(m).ip
         /\ limiter[KeyOf(l)] # NoLim
         /\ limiter[KeyOf(m)] # NoLim) => KeyOf(l) = KeyOf(m)

\* C17: the upsert of a Failure on an existing record sets fail_count to 1
\* when the record's updated_at is more than window before now and to
\* fail_count + 1 otherwise, sets updated_at to now and leaves blocked_until
\* alone; a failure that comes more than window after the previous one
\* therefore counts as the first and sets no block (max_fails > 1).
C17_WindowRollover ==
    [][\A l \in {"l1", "l4"} :
         LET k == KeyOf(l)
             old == limiter[k]
             new == limiter'[k]
         IN (login[l].pc = "failure" /\ old # NoLim /\ new # old) =>
              /\ new.fails = IF old.updatedAt < now - LimWindow
                             THEN 1 ELSE old.fails + 1
              /\ new.updatedAt = now
              /\ new.blockedUntil = old.blockedUntil
              /\ (old.updatedAt < now - LimWindow /\ LimMaxFails > 1) =>
                   /\ login'[l].pc = "done"
                   /\ login'[l].err = "unauthorized"
    ]_vars

\* Two failures more than window apart have left fail_count at 1.
C17_Witness ==
    LET k == KeyOf("l1")
    IN /\ hist[k].clean /\ hist[k].n = 2
       /\ hist[k].last - hist[k].first > LimWindow
       /\ limiter[k].fails = 1
       /\ limiter[k].updatedAt = hist[k].last

\* C18: a LoginWithIP that succeeds, and whose Success statement the
\* backend has executed, leaves the record of its pair at fail_count 0,
\* blocked_until epoch, updated_at now; from then on fail_count counts only
\* the Failure calls made since (those completed, plus the one in flight), so
\* the pair is blocked again only once max_fails new failures have completed.
C18_SuccessResets ==
    [][\A l \in {"l1", "l4"} :
         LET k == KeyOf(l)
         IN /\ (login[l].pc = "success" /\ login'[l].pc = "done"
                  /\ hist'[k].clean) =>
                 /\ login'[l].err = "ok"
                 /\ limiter'[k] = LimRow(0, Epoch, now)
                 /\ hist'[k].n = 0
            /\ hist'[k].clean =>
                 /\ limiter'[k].fails <=
                      hist'[k].n + (IF login'[l].pc = "block" THEN 1 ELSE 0)
                 /\ limiter'[k].blockedUntil > now' =>
                      hist'[k].n >= LimMaxFails
    ]_vars

\* A successful login has just wiped out counted failures.
C18_Witness ==
    LET k == KeyOf("l1")
    IN /\ login["l1"].pc = "done" /\ login["l1"].err = "ok"
       /\ limiter[k] = LimRow(0, Epoch, now)
       /\ hist[k].clean /\ hist[k].n = 0
       /\ hist[k].last # Epoch

\* C19: whatever the interleaving of concurrent Failure and Success calls
\* on one record, the record never has fail_count = 0 together with a
\* blocked_until in the future (no sequential order of the calls leaves
\* it so).
C19_NoBlockOnResetRecord ==
    \A k \in LimKeys :
        ~(/\ limiter[k] # NoLim
          /\ limiter[k].fails = 0
          /\ limiter[k].blockedUntil > now)

\* C20: a LoginWithIP that takes the failure path because GetByUsername
\* found no such user has done the work of one that takes it for a wrong
\* password: it has computed one password hash.
C20_OneHashOnFailure ==
    \A l \in Logins :
        (login[l].pc \in {"failure", "block"} /\ login[l].lookup # "backend")
            => login[l].hashes = 1

\* ---------------------------------------- properties of the error paths
\* C29: a call of UpsertBatch or Delete that returns an error, a failure of
\* the final commit included, returns no ItemVersion with it.
C29_NoResultsWithError ==
    \A t \in AllTx :
        (tx[t].pc = "done" /\ tx[t].err # "ok") => tx[t].results = <<>>

\* C27: a Register that finds its username taken fails with the kind
\* already-exists, and not with version-conflict.
C27_DuplicateIsAlreadyExists ==
    (/\ authResp.op = "Register"
     /\ authResp.err \notin {"ok", "validation", "backend"}
     /\ IdsOf(users, authResp.username) # {}) =>
        authResp.err = "alreadyexists"

\* C21: a LoginWithIP call fails with the limiter's error only where the
\* gating Allow failed: it then goes from its start straight to its end,
\* having looked up no user, computed no hash, written no limiter record
\* and minted no token.  Where the Success that follows a correct password
\* fails, the call still ends without error, with the token of the user it
\* found and that user's record, and the limiter record is left as it was.
C21_AllowFatalSuccessSwallowed ==
    [][\A l \in Logins :
         /\ (login[l].pc # "done" /\ login'[l].pc = "done"
             /\ login'[l].err = "backend") =>
                /\ login[l].pc = "idle"
                /\ limiter' = limiter
                /\ hist' = hist
                /\ login'[l].token = NoToken
                /\ login'[l].user = NoUser
                /\ login'[l].hashes = 0
         /\ (login[l].pc = "success" /\ login'[l].pc = "done"
             /\ hist[LimKey(l)].clean /\ ~hist'[LimKey(l)].clean) =>
                /\ login'[l].err = "ok"
                /\ login'[l].token =
                       Token(UUIDString(login[l].user.id), now,
                             now + AccessTTL)
                /\ login'[l].user = login[l].user
                /\ login'[l].user # NoUser
                /\ login'[l].user.username = login[l].username
                /\ limiter' = limiter]_vars

\* A login has succeeded although its Success failed: the record still
\* counts the earlier failure.
C21_Witness ==
    \E l \in Logins :
        /\ login[l].pc = "done"
        /\ login[l].err = "ok"
        /\ login[l].token # NoToken
        /\ login[l].user = users["A"]
        /\ ~hist[LimKey(l)].clean
        /\ hist[LimKey(l)].n = 1
        /\ limiter[LimKey(l)] # NoLim
        /\ limiter[LimKey(l)].fails = 1

\* C30: DecryptBlob gives back the plaintext of EncryptBlob under the same
\* key and the same (user, item, ver), and fails under any other key or
\* triple, whatever the lengths of the identifiers.
C30_DecryptOnlySameTriple ==
    (box.op = "DecryptBlob" /\ box.encErr = "ok" /\ box.blob # ShortBlob) =>
        IF box.dec = box.enc
        THEN box.err = "ok" /\ box.out = box.plain
        ELSE box.err # "ok"

\* ------------------------------------------- properties of the RPC layer
ItemOps == {"UpsertItems", "GetChanges", "GetItem", "DeleteItem"}
AuthedOps == ItemOps \cup {"SetWrappedDEK"}

\* The request carries a bearer token.
HasBearer(md) ==
    md.scheme \in {"Bearer", "bearer", "BEARER"} /\ md.token # NoToken

\* The token is a JWT signed with HS256 under the server's key whose sub is
\* the text of a UUID.
WellSigned(tok) ==
    /\ tok.form = "jws"
    /\ tok.alg = "HS256"
    /\ tok.key = SignKey
    /\ tok.sub[1] \in {"canonical", "urn"}

\* At instant t the token is expired, or not yet valid, by more than the
\* leeway.
OutOfDate(tok, t) ==
    \/ tok.exp # NoDate /\ t - tok.exp > Leeway
    \/ tok.nbf # NoDate /\ tok.nbf - t > Leeway

\* At instant t the token is within its validity, leeway aside.
InDate(tok, t) ==
    /\ tok.exp # NoDate /\ t < tok.exp
    /\ tok.nbf # NoDate => tok.nbf <= t

\* The step answers a request to one of the operations in ops.
Answers(ops) == rpc' # rpc /\ rpc'.op \in ops

\* In this step the handler of a request on goroutine t passes its checks
\* and opens the repository call.
Opens(t) == tx[t].pc = "idle" /\ tx'[t].pc # "idle" /\ tx'[t].call # <<>>

\* C22: a request to UpsertItems, GetChanges, GetItem, DeleteItem or
\* SetWrappedDEK that carries no bearer token, or a token that is malformed,
\* signed with another key or another algorithm, out of date, or whose sub
\* is no UUID, is answered unauthenticated, no service or repository method
\* runs and nothing is written; a request with a valid token passes the
\* gate: unless its body is malformed, the service is called for the user
\* that sub names, and only rows of that user are written.  (A repository
\* call is opened only behind the gate, for the user that sub names, and
\* rows are written by the commit of such a call, for its user.)
C22_AuthGate ==
    [][/\ Answers(AuthedOps) =>
            LET md  == rpc'.md
                tok == md.token
            IN /\ (~HasBearer(md) \/ ~WellSigned(tok) \/ OutOfDate(tok, now)) =>
                     /\ rpc'.code = "Unauthenticated"
                     /\ rpc'.calls = <<>>
                     /\ rpc'.user = None
                     /\ rpc'.out = <<>>
                     /\ tx' = tx
                     /\ store' = store
                     /\ users' = users
               /\ (HasBearer(md) /\ WellSigned(tok) /\ InDate(tok, now)) =>
                     /\ rpc'.code # "Unauthenticated"
                     /\ rpc'.calls # <<>> => rpc'.user = tok.sub[2]
                     /\ rpc'.calls = <<>> => rpc'.code = "InvalidArgument"
                     /\ \A u \in Users :
                           users'[u] # users[u] => u = tok.sub[2]
       /\ \A t \in AllTx :
            Opens(t) =>
               LET md  == tx'[t].call[2]
                   tok == md.token
               IN /\ HasBearer(md) /\ WellSigned(tok) /\ ~OutOfDate(tok, now)
                  /\ tx'[t].user = tok.sub[2]
                  /\ store' = store
       /\ \A i \in Items :
            store'[i] # store[i] =>
               \E t \in AllTx :
                  /\ Committing(t)
                  /\ tx[t].call # <<>>
                  /\ store'[i].user = tx[t].user]_vars

\* A DeleteItem at the current version of A's item X, with a token of A
\* signed with HS384, has been refused and the item is as it was.
C22_Witness ==
    /\ rpc.op = "DeleteItem"
    /\ rpc.md = Bearer(Jwt("HS384", SignKey, UUIDString("A"), 1, NoDate,
                           FarDate))
    /\ rpc.req = <<UUIDString("X"), 1>>
    /\ rpc.code = "Unauthenticated"
    /\ store["X"] = Row("A", 1, FALSE, "e1")

\* C23: a correctly signed token whose exp has been reached less than the
\* leeway ago, or whose nbf lies at most the leeway ahead, is accepted; one
\* that is out of date by more than the leeway is refused.
C23_LeewayApplied ==
    [][Answers(AuthedOps) =>
         LET md  == rpc'.md
             tok == md.token
         IN (HasBearer(md) /\ WellSigned(tok)) =>
              /\ (/\ tok.exp # NoDate
                  /\ tok.exp <= now /\ now - tok.exp < Leeway
                  /\ tok.nbf = NoDate) =>
                     rpc'.code # "Unauthenticated"
              /\ (/\ tok.nbf # NoDate
                  /\ now < tok.nbf /\ tok.nbf - now <= Leeway
                  /\ (tok.exp = NoDate \/ now < tok.exp)) =>
                     rpc'.code # "Unauthenticated"
              /\ OutOfDate(tok, now) => rpc'.code = "Unauthenticated"]_vars

\* C24: the token minted by a successful LoginWithIP of user U is signed
\* with HS256 under the server's key and carries sub = U's id, iat = the
\* instant of minting and exp = that instant plus the access TTL; a request
\* that presents it before exp is served for U.
C24_LoginTokenAuthenticates ==
    [][/\ \A l \in Logins :
            (login[l].pc = "success" /\ login'[l].pc = "done") =>
                /\ login'[l].err = "ok"
                /\ login'[l].token =
                       Jwt("HS256", SignKey, UUIDString(login[l].user.id),
                           now, NoDate, now + AccessTTL)
                /\ login[l].user.username = login[l].username
       /\ (/\ Answers(AuthedOps)
           /\ rpc.token # NoToken
           /\ rpc'.md = Bearer(rpc.token)
           /\ now < rpc.token.exp) =>
                /\ rpc'.code # "Unauthenticated"
                /\ rpc'.user = "A"
                /\ UUIDString(rpc'.user) = rpc.token.sub
                /\ rpc.token.iat <= now
       /\ \A t \in AllTx :
            (Opens(t) /\ tx'[t].call[2] = Bearer(rpc.token)) =>
                /\ tx'[t].user = "A"
                /\ UUIDString(tx'[t].user) = rpc.token.sub
       /\ \A i \in Items :
            store'[i] # store[i] => store'[i].user = "A"]_vars

\* The token of alice's login has been presented one tick after it was
\* minted, and the item it wrote belongs to alice.
C24_Witness ==
    /\ rpc.op = "UpsertItems"
    /\ rpc.md = Bearer(rpc.token)
    /\ rpc.token.iat < now
    /\ now < rpc.token.exp
    /\ rpc.code = "OK"
    /\ rpc.user = "A"
    /\ users["A"].username = "alice"
    /\ store["X"].user = "A"

\* The request body of an UpsertItems answer fails one of the validations:
\* a malformed or zero id, a negative base_ver, an empty blob_enc, or more
\* than max_batch intents.
InvalidBatch(req) ==
    \/ Len(req) > MaxBatch
    \/ \E k \in 1 .. Len(req) :
          \/ req[k].id[1] \notin {"canonical", "urn"}
          \/ req[k].id[2] = None
          \/ req[k].base < 0
          \/ req[k].blob = Empty

\* C25: an UpsertItems, DeleteItem or GetChanges request of an authenticated
\* user that fails a validation is answered invalid-argument.
C25_ValidationIsInvalidArgument ==
    (rpc.md = Bearer(GoodToken("A"))) =>
        /\ (rpc.op = "UpsertItems" /\ InvalidBatch(rpc.req)) =>
              rpc.code = "InvalidArgument"
        /\ (rpc.op = "DeleteItem" /\ rpc.req[2] < 0) =>
              rpc.code = "InvalidArgument"
        /\ (rpc.op = "GetChanges" /\ rpc.req[1] < 0) =>
              rpc.code = "InvalidArgument"

\* C26: the answer carries the status code that the table gives for the
\* error of the service: failed-precondition for a version conflict on
\* UpsertItems, DeleteItem and SetWrappedDEK, not-found for not-found on
\* GetItem and DeleteItem, unauthenticated and resource-exhausted for
\* unauthorized and rate-limited on Login, internal for any other error.
C26_CodeTable ==
    (rpc.op # None /\ rpc.calls # <<>>) =>
        rpc.code =
            IF rpc.err = "ok" THEN "OK"
            ELSE IF /\ rpc.err = "conflict"
                    /\ rpc.op \in {"UpsertItems", "DeleteItem",
                                   "SetWrappedDEK"}
            THEN "FailedPrecondition"
            ELSE IF rpc.err = "notfound" /\ rpc.op \in {"GetItem", "DeleteItem"}
            THEN "NotFound"
            ELSE IF rpc.err = "unauthorized" /\ rpc.op = "Login"
            THEN "Unauthenticated"
            ELSE IF rpc.err = "ratelimited" /\ rpc.op = "Login"
            THEN "ResourceExhausted"
            ELSE "Internal"

\* A DeleteItem with a stale base_ver has been answered failed-precondition.
C26_Witness ==
    /\ rpc.op = "DeleteItem"
    /\ rpc.err = "conflict"
    /\ rpc.code = "FailedPrecondition"
    /\ rpc.req[2] # store["X"].ver
    /\ store["X"].user = rpc.user

\* The input of the service call behind an answer is invalid: a zero user
\* id, or for Upsert a batch over max_batch or an intent with a zero id, a
\* negative base_ver or an empty blob_enc, for Delete a zero id or a negative
\* base_ver, for GetChanges a negative since_ver, for GetOne a zero id.
InvalidInput(a) ==
    \/ a.user = None
    \/ a.op = "UpsertItems" /\ InvalidBatch(a.req)
    \/ a.op = "DeleteItem" /\ (a.req[1][2] = None \/ a.req[2] < 0)
    \/ a.op = "GetChanges" /\ a.req[1] < 0
    \/ a.op = "GetItem" /\ a.req[1][2] = None

\* C28: an ItemService call with invalid input returns an error, and an
\* Upsert of an empty batch returns an empty result; in both cases no
\* repository method runs and the store is unchanged.  A repository call is
\* opened only for valid input.
C28_ValidationBeforeRepository ==
    [][/\ (Answers(ItemOps) /\ rpc'.calls # <<>>) =>
            /\ InvalidInput(rpc') =>
                  /\ rpc'.err = "validation"
                  /\ Len(rpc'.calls) = 1
                  /\ tx' = tx
                  /\ store' = store
            /\ (rpc'.op = "UpsertItems" /\ rpc'.user # None
                /\ rpc'.req = <<>>) =>
                  /\ rpc'.err = "ok"
                  /\ rpc'.out = <<>>
                  /\ Len(rpc'.calls) = 1
                  /\ tx' = tx
                  /\ store' = store
            /\ (Len(rpc'.calls) = 1 /\ rpc'.req # <<>>) => InvalidInput(rpc')
       /\ \A t \in AllTx :
            Opens(t) =>
               /\ tx'[t].call[3] # <<>>
               /\ ~InvalidInput([op |-> tx'[t].call[1], req |-> tx'[t].call[3],
                                 user |-> tx'[t].user])]_vars

\* A batch whose first intent would have updated A's item and whose second
\* has an empty blob_enc has been turned away by the service.
C28_Witness ==
    /\ rpc.op = "UpsertItems"
    /\ rpc.user = "A"
    /\ rpc.req = <<PbUpsertItem(UUIDString("X"), 1, "e2"),
                   PbUpsertItem(UUIDString("X"), 0, Empty)>>
    /\ rpc.err = "validation"
    /\ rpc.calls = <<"ItemService.Upsert">>
    /\ store["X"] = Row("A", 1, FALSE, "e1")

\* ------------------------------------------------ properties of ownership
\* The request of an answer names item i.
Targets(a, i) ==
    \/ a.op = "UpsertItems" /\ \E k \in 1 .. Len(a.req) : a.req[k].id[2] = i
    \/ a.op \in {"GetItem", "DeleteItem"} /\ a.req[1][2] = i
    \/ a.op = "GetChanges"

\* C31: a call made with one user's identity on an item row owned by another
\* user leaves the row as it is (a row changes only in the commit of a call
\* of its owner, and keeps its owner); GetItem and DeleteItem that reach the
\* repository return not-found, GetChanges lists no change of the row, and an
\* UpsertItems that names the row's id fails whatever its base_ver.
C31_ForeignRowUntouched ==
    [][\A i \in Items :
         /\ (store[i] # NoRow /\ store'[i] # store[i]) =>
               /\ store'[i].user = store[i].user
               /\ \E t \in AllTx :
                     Committing(t) /\ tx[t].user = store[i].user
         /\ (/\ Answers(ItemOps)
             /\ rpc'.calls # <<>>
             /\ store[i] # NoRow
             /\ store[i].user # rpc'.user
             /\ Targets(rpc', i)) =>
                /\ store'[i] = store[i]
                /\ rpc'.op \in {"GetItem", "DeleteItem"} =>
                      /\ rpc'.err \in {"notfound", "validation", "backend"}
                      /\ Len(rpc'.calls) = 2 =>
                            rpc'.code \in {"NotFound", "Internal"}
                      /\ rpc'.out = <<>>
                /\ rpc'.op = "GetChanges" =>
                      \A k \in 1 .. Len(rpc'.out) : rpc'.out[k].id # i
                /\ rpc'.op = "UpsertItems" =>
                      /\ rpc'.err # "ok"
                      /\ rpc'.out = <<>>]_vars

\* With user B's token an insert of the id of A's item has failed, and so
\* has an update at the ver A's row holds.
C31_Witness ==
    /\ rpc.op = "UpsertItems"
    /\ rpc.user = "B"
    /\ rpc.calls # <<>>
    /\ store["X"] # NoRow
    /\ store["X"].user = "A"
    /\ rpc.req = <<PbUpsertItem(UUIDString("X"), store["X"].ver, "e2")>>
    /\ rpc.err = "conflict"

\* ------------------------------------------------ properties of tombstones
\* The row of item i as call t's transaction has it: its own pending write,
\* else the committed row of its user.
Found(t, i) ==
    IF tx[t].wset[i] # NoRow THEN tx[t].wset[i]
    ELSE IF store[i] # NoRow /\ store[i].user = tx[t].user THEN store[i]
    ELSE NoRow

\* C32: an Upsert intent on a tombstone whose base_ver is the tombstone's ver
\* goes to the UPDATE, which writes the intent's blob_enc with ver + 1 and
\* deleted = false and reports that ver; the commit stores the row, and
\* GetItem and GetChangesSince then give the row as live.
C32_UpsertRevivesTombstone ==
    [][/\ \A t \in AllTx, i \in Items :
            (/\ tx[t].kind = "upsert"
             /\ Found(t, i) # NoRow
             /\ Found(t, i).deleted) =>
                /\ (/\ tx[t].pc \in {"sel", "wait"}
                    /\ tx'[t].pc \notin {"sel", "wait"}
                    /\ tx'[t].err # "backend"
                    /\ tx'[t].up.id = i
                    /\ tx'[t].up.base = Found(t, i).ver) =>
                       tx'[t].pc = "upd" /\ tx'[t].curVer = Found(t, i).ver
                /\ (tx[t].pc = "upd" /\ tx'[t].pc \in {"sel", "end"}
                    /\ tx[t].up.id = i) =>
                       /\ tx'[t].wset[i] =
                             Row(tx[t].user, Found(t, i).ver + 1, FALSE,
                                 tx[t].up.blob)
                       /\ tx'[t].results =
                             Append(tx[t].results,
                                    ItemVersion(i, Found(t, i).ver + 1))
       /\ \A t \in AllTx, i \in Items :
            (Committing(t) /\ tx[t].wset[i] # NoRow) =>
                store'[i] = tx[t].wset[i]
       /\ \A i \in Items :
            (/\ resp' # resp
             /\ store[i] # NoRow
             /\ store[i].user = resp'.user
             /\ ~store[i].deleted) =>
                /\ (resp'.op = "GetItem" /\ resp'.id = i) =>
                      resp'.err = "ok" /\ resp'.item = store[i]
                /\ (resp'.op = "GetChangesSince"
                    /\ resp'.sinceVer < store[i].ver) =>
                      \E k \in 1 .. Len(resp'.changes) :
                         resp'.changes[k] =
                            [id |-> i, ver |-> store[i].ver,
                             deleted |-> FALSE, blob |-> store[i].blob]]_vars

\* An Upsert at the ver of A's tombstone has written the live row and is
\* about to commit.
C32_Witness ==
    /\ tx[Lone].pc = "end"
    /\ tx[Lone].kind = "upsert"
    /\ tx[Lone].err = "ok"
    /\ store["X"] # NoRow
    /\ store["X"].deleted
    /\ tx[Lone].wset["X"] =
          Row(store["X"].user, store["X"].ver + 1, FALSE, "e2")
    /\ tx[Lone].results = <<ItemVersion("X", store["X"].ver + 1)>>

\* --------------------------------------------------- properties of a batch
\* C33: the intents of a batch run in order in one transaction, each on the
\* writes of the earlier ones: on a new item X the batch [(X, 0), (X, 1)]
\* commits with results ver 1 then ver 2 and leaves X at ver 2 with the
\* second blob, and the batch [(X, 0), (X, 0)] returns version-conflict and
\* persists nothing; a failure of the backend aside.
C33_BatchSeesOwnWrites ==
    [][LET ordered == <<PbUpsertItem(UUIDString("X"), 0, "e1"),
                        PbUpsertItem(UUIDString("X"), 1, "e2")>>
           twice   == <<PbUpsertItem(UUIDString("X"), 0, "e1"),
                        PbUpsertItem(UUIDString("X"), 0, "e1")>>
       IN /\ \A t \in AllTx :
            (/\ tx[t].call # <<>>
             /\ tx[t].call[1] = "UpsertItems"
             /\ store["X"] = NoRow) =>
                /\ tx[t].call[3] = ordered =>
                      /\ tx'[t].err \in {"ok"} \cup InfraErrs
                      /\ Committing(t) =>
                            /\ tx[t].results =
                                  <<ItemVersion("X", 1), ItemVersion("X", 2)>>
                            /\ store' = [store EXCEPT
                                           !["X"] = Row(tx[t].user, 2, FALSE,
                                                        "e2")]
                      /\ (tx[t].pc = "sel" /\ Len(tx[t].results) = 1
                          /\ tx'[t].err = "ok") =>
                            tx'[t].pc = "upd" /\ tx'[t].curVer = 1
                /\ tx[t].call[3] = twice =>
                      /\ tx'[t].err \in {"ok", "conflict"} \cup InfraErrs
                      /\ ~Committing(t)
                      /\ store' = store
                      /\ (tx'[t].pc = "idle" /\ tx[t].err \notin InfraErrs) =>
                            /\ rpc'.err = "conflict"
                            /\ rpc'.code = "FailedPrecondition"
                            /\ rpc'.out = <<>>
          /\ (/\ Answers({"UpsertItems"})
              /\ rpc'.req = ordered
              /\ rpc'.err = "ok") =>
                 /\ rpc'.out = <<ItemVersion("X", 1), ItemVersion("X", 2)>>
                 /\ store["X"] = Row(rpc'.user, 2, FALSE, "e2")]_vars

\* The batch [(X, 0), (X, 1)] of user A has been answered with ver 1 and
\* ver 2.
C33_Witness ==
    /\ rpc.op = "UpsertItems"
    /\ rpc.user = "A"
    /\ rpc.req = <<PbUpsertItem(UUIDString("X"), 0, "e1"),
                   PbUpsertItem(UUIDString("X"), 1, "e2")>>
    /\ rpc.err = "ok"
    /\ rpc.out = <<ItemVersion("X", 1), ItemVersion("X", 2)>>
    /\ store["X"] = Row("A", 2, FALSE, "e2")

\* ------------------------------------------- properties of a failed lookup
\* C35: an error of the user lookup of LoginWithIP (no such user, or a
\* failure of the backend) does not end the call: Failure is called once for
\* the call's (username, ip), counting one failure on that record and on no
\* other, and the call returns unauthorized or rate-limited, never the
\* lookup's error; an error of Failure itself is dropped, nothing is counted
\* and the call returns unauthorized.
C35_LookupErrorIsBadCredentials ==
    [][\A l \in Logins :
         LET k == LimKey(l) IN
         /\ (login[l].pc = "lookup" /\ login'[l] # login[l]) =>
               /\ login'[l].pc \in {"failure", "success"}
               /\ login'[l].pc = "success" => login'[l].lookup = "ok"
               /\ limiter' = limiter
         /\ (login[l].pc = "failure" /\ login'[l] # login[l]) =>
               /\ login'[l].pc \in {"block", "done"}
               /\ \A o \in LimKeys \ {k} : limiter'[o] = limiter[o]
               /\ \/ limiter' = limiter /\ login'[l].pc = "done"
                                        /\ login'[l].err = "unauthorized"
                  \/ /\ limiter'[k].fails \in {1, limiter[k].fails + 1}
                     /\ limiter'[k].blockedUntil = limiter[k].blockedUntil
         /\ (login[l].pc = "block" /\ login'[l] # login[l]) =>
               /\ login'[l].pc = "done"
               /\ limiter'[k].fails = limiter[k].fails
               /\ \A o \in LimKeys \ {k} : limiter'[o] = limiter[o]
               /\ limiter'[k].blockedUntil # login[l].blockUntil =>
                     login'[l].err = "unauthorized"
         /\ (login[l].pc \in {"lookup", "failure", "block"}
             /\ login'[l].pc = "done") =>
               login'[l].err \in {"unauthorized", "ratelimited"}]_vars

\* A login for a username that has no row has counted one failure and has
\* returned unauthorized.
C35_Witness ==
    /\ \A u \in Users : users[u] = NoUser
    /\ login["l1"].pc = "done"
    /\ login["l1"].err = "unauthorized"
    /\ limiter[LimKey("l1")].fails = 1

\* ------------------------------------- properties of concurrent logins
\* The pair of record k is blocked now.
Blocked(k) == limiter[k] # NoLim /\ limiter[k].blockedUntil > now

\* C36: while a record has not been reset (by Success or by the rollover of
\* the window) and no statement on it has failed, at most max_fails calls
\* find the password of its pair wrong, however the LoginWithIP calls
\* interleave; and no call checks a password for a pair while the pair's
\* block lasts.
C36_VerificationsBounded ==
    [][\A l \in Logins :
         (login[l].pc = "lookup" /\ login'[l].hashes = 1) =>
            LET k == LimKey(l) IN
            /\ ~Blocked(k)
            /\ (/\ hist'[k].clean
                /\ hist'[k].n = 0 \/ now - hist'[k].first <= LimWindow) =>
                  hist'[k].v <= LimMaxFails
    ]_vars

\* ------------------------------------------ properties of an expired block
\* The block of record k has expired.
Expired(k) ==
    /\ limiter[k] # NoLim
    /\ limiter[k].blockedUntil # Epoch
    /\ limiter[k].blockedUntil <= now

\* C37: fail_count changes only in the upsert of a Failure (to 1 when the
\* previous failure is more than window old, else by +1) and in a Success
\* (to 0); the passing of time and the expiry of a block leave it alone.
\* So the first Failure after the expiry of a block counts on from at least
\* max_fails and sets a new block at once when it comes within window of
\* the previous failure, and otherwise sets the count to 1 and no block.
C37_ExpiryKeepsCount ==
    [][/\ \A k \in LimKeys :
            limiter'[k].fails # limiter[k].fails =>
               \E l \in Logins :
                  /\ login[l].pc \in {"failure", "success"}
                  /\ LimKey(l) = k
                  /\ login'[l] # login[l]
                  /\ login[l].pc = "success" => limiter'[k].fails = 0
                  /\ login[l].pc = "failure" =>
                        limiter'[k].fails =
                           IF limiter[k] # NoLim
                              /\ now - limiter[k].updatedAt <= LimWindow
                           THEN limiter[k].fails + 1 ELSE 1
       /\ \A l \in Logins :
            (/\ login[l].pc = "failure"
             /\ Expired(LimKey(l))
             /\ limiter[LimKey(l)].fails >= LimMaxFails
             /\ limiter' # limiter) =>
                LET k == LimKey(l) IN
                IF now - limiter[k].updatedAt <= LimWindow
                THEN /\ limiter'[k].fails = limiter[k].fails + 1
                     /\ login'[l].pc = "block"
                     /\ login'[l].blockUntil = now + LimBlockFor
                ELSE /\ limiter'[k].fails = 1
                     /\ limiter'[k].blockedUntil = limiter[k].blockedUntil
                     /\ login'[l].pc = "done"
                     /\ login'[l].err = "unauthorized"
       /\ \A l \in Logins :
            (login[l].pc = "block" /\ limiter' # limiter) =>
                /\ limiter'[LimKey(l)].blockedUntil = login[l].blockUntil
                /\ login'[l].err = "ratelimited"]_vars

\* The first failure after the expiry of a block has set a new block: the
\* record counts max_fails + 1 failures.
C37_Witness ==
    LET k == KeyOf("l1")
    IN /\ hist[k].clean
       /\ limiter[k].fails = LimMaxFails + 1
       /\ limiter[k].blockedUntil = now + LimBlockFor
       /\ limiter[k].updatedAt = now
       /\ login["l1"].pc = "done"
       /\ login["l1"].err = "ratelimited"

\* ------------------------------------------------- properties of progress
\* C34: every UpsertBatch and Delete call that has begun returns, with its
\* results or with an error, whatever the other call does meanwhile; a wait
\* cycle on row locks is broken by the abort of one of its statements.
C34_EveryCallReturns ==
    \A t \in Tx : (tx[t].pc # "idle") ~> (tx[t].pc = "done")

\* Two calls wait for each other's row lock.
C34_Witness ==
    /\ tx["t1"].pc = "wait"
    /\ tx["t2"].pc = "wait"
    /\ "t2" \in WaitsFor("t1")
    /\ "t1" \in WaitsFor("t2")

\* ------------------------------------------------- properties of the CLI
\* C38: after any sequence of add, edit and rm commands, every live row holds
\* a blob sealed with the row's ver in its associated data, so that
\* DecryptBlob with the ver that GetItem returns succeeds on it; and a show
\* of a live item that the server answered has decrypted the blob.
C38_LiveBlobSealedWithVer ==
    /\ \A i \in Items :
         (store[i] # NoRow /\ ~store[i].deleted) =>
            /\ box[store[i].blob].ct.aad =
                  AAD(UserBytes, ItemBytes, store[i].ver)
            /\ DecryptBlob(DeriveItemKey(CliDek, ItemBytes), UserBytes,
                           ItemBytes, GetItem(store, CliUser, i).item.ver,
                           box[GetItem(store, CliUser, i).item.blob]).err = "ok"
    /\ (resp.op = "show" /\ resp.item # NoRow /\ ~resp.item.deleted) =>
          resp.err = "ok"

\* A live item at the highest ver of the model has been shown: its blob was
\* decrypted with the ver of the answer.
C38_Witness ==
    /\ resp.op = "show"
    /\ resp.err = "ok"
    /\ resp.item = store[CliItem]
    /\ store[CliItem].ver = MaxVer
    /\ ~store[CliItem].deleted

\* ------------------------------------------ properties of the interceptors
\* The step serves a unary call.
Served == rpc'.op \in Methods /\ (rpc' # rpc \/ log' # log)

\* C39: a panic of the handler does not leave the chain: the call returns no
\* response and an error of code internal; where the handler returns, the
\* call returns the handler's response and error as they are.
C39_PanicBecomesInternal ==
    [][Served =>
         LET h == rpc'.req[1]
             o == rpc'.out[1]
         IN /\ o.kind = "return"
            /\ h.kind = "panic" =>
                  /\ o.resp = None
                  /\ o.err = "Internal"
                  /\ rpc'.code = "Internal"
            /\ h.kind = "return" => o = h]_vars

\* A call whose handler panicked has been answered internal.
C39_Witness ==
    /\ rpc.op \in Methods
    /\ rpc.req[1] = Panicked("oh no")
    /\ rpc.out[1] = Returned(None, "Internal")
    /\ rpc.code = "Internal"

\* C40: every unary call, whether its handler returned without error, with
\* an error, or panicked, adds exactly one request record to the log, with
\* the call's method and the code of its answer.
C40_OneRequestRecordPerCall ==
    [][Served =>
         /\ Len(log') = Len(log) + 1
         /\ log'[Len(log')].msg = "grpc"
         /\ log'[Len(log')].method = rpc'.op
         /\ log'[Len(log')].code = rpc'.code]_vars

====
